---------------------------- MODULE Spec2Model ----------------------------
(***************************************************************************)
(* Model of the autonomous session harness: AutonomyState and Watchdog     *)
(* (src/autonomy.py) and the session loop run_autonomous_agent             *)
(* (src/agent.py).                                                         *)
(*                                                                         *)
(* Time is the integer number of seconds shown by the clock (`now`).       *)
(* The specifications share the variables:                                 *)
(*   SpecState  - record_session_result called on a fresh AutonomyState    *)
(*   SpecPause  - should_pause with the clock running                      *)
(*   SpecWatch  - one Watchdog object, its monitor tasks and one caller    *)
(*   Spec       - the session loop of run_autonomous_agent                 *)
(* and, further down, the specifications of the loop's modes, its          *)
(* interruption, its events and its termination, and of the functions      *)
(* studied call by call (retry, classification, persistence, health, stale *)
(* issues, the issue cache, the command gate, pending operations, load).   *)
(***************************************************************************)
EXTENDS Integers, Sequences, FiniteSets, TLC

VARIABLES
    now,             \* the clock: datetime.now() / time.time(), in seconds
    autonomy_state,  \* the AutonomyState object
    pause_result,    \* what the last should_pause() call returned
    pause_test,      \* ghost: the clock read by the test of that call
    calls,           \* ghost: the summaries recorded since the initial state
    op,              \* ghost: the operation of the last step
    watchdog,        \* the Watchdog object
    tasks,           \* the monitor tasks created so far, by task number
    wpc,             \* where the caller of start() / stop() is
    fires,           \* ghost: invocations of the timeout callback
    last_fire,       \* ghost: the clock at the last invocation, or None
    stopped,         \* ghost: stop() has returned and start() was not called since
    loop,            \* run_autonomous_agent: its arguments, locals and position
    session_health,  \* the SessionHealth of the current iteration
    state_file,      \* .autonomy_state.json: <<>> when missing, else <<data>>
    call             \* the call of a function under study: its inputs and results

asVars == <<now, autonomy_state, pause_result, pause_test, calls, op>>
wdVars == <<watchdog, tasks, wpc, fires, last_fire, stopped>>
loopVars == <<loop, session_health, state_file>>
vars == <<asVars, wdVars, loopVars, call>>

-----------------------------------------------------------------------------
(* Bounds of the model *)

\* record_session_result calls explored by SpecState
MaxSessions == 11
\* sessions with a worked issue explored by SpecState
MaxIssues == 1
\* SpecPause: longest failure streak of an initial state, calls of
\* record_session_result after it, and the last clock value
MaxStartErrors == 11
MaxPauseRecords == 2
MaxClock == 32
\* SpecWatch: monitor tasks created and the last clock value
MaxTasks == 2
MaxWatchClock == 40

\* seconds that may pass between two reads of the clock inside one call
ClockSteps == {0, 1}
\* seconds that may pass between two calls
ElapseSteps == {29}
\* SpecWatch: the timeout_seconds a Watchdog is built with, and the seconds
\* that may pass between two steps
WatchTimeouts == {5, 10}
TickSteps == {5}
\* Spec: iterations of the session loop, events of one session
MaxIterations == 2
MaxEvents == 1
\* Spec: seconds that may pass between two steps of a running session
SessionTicks == {1800}

-----------------------------------------------------------------------------
(* Program constants *)

\* AutonomyState.error_threshold_for_pause
error_threshold_for_pause == 5
\* AutonomyState.max_session_history
max_session_history == 10
\* should_pause: first pause and its cap, in seconds
PauseBase == 30
PauseCap == 600

\* Optional[datetime] = None is the empty sequence, a datetime t is <<t>>
None == <<>>

Min(a, b) == IF a <= b THEN a ELSE b

\* 2 ** n
RECURSIVE Pow2(_)
Pow2(n) == IF n <= 0 THEN 1 ELSE 2 * Pow2(n - 1)

-----------------------------------------------------------------------------
(* SessionHealth *)

\* SessionHealth(): the counters of a new session; issues_worked is the
\* length of the list
NewSessionHealth ==
    [tool_calls |-> 0, errors |-> 0, issues_worked |-> 0]

\* SessionHealth.get_summary: the counters copied into a dict (the fields
\* derived from the clock, duration_seconds and is_healthy, are left out)
get_summary(health) ==
    [tool_calls |-> health.tool_calls,
     errors |-> health.errors,
     issues_worked |-> health.issues_worked]

-----------------------------------------------------------------------------
(* AutonomyState *)

\* AutonomyState(): the dataclass defaults
NewAutonomyState ==
    [consecutive_errors |-> 0,
     consecutive_successes |-> 0,
     total_sessions |-> 0,
     total_issues_completed |-> 0,
     degraded_mode |-> FALSE,
     pause_until |-> None,
     session_history |-> <<>>]

\* the summary appended to session_history (its timestamp is left out)
Summary(success, health) ==
    [success |-> success,
     tool_calls |-> get_summary(health).tool_calls,
     errors |-> get_summary(health).errors,
     issues_worked |-> get_summary(health).issues_worked]

\* session_history[-max_session_history:]
LastN(seq, n) ==
    IF Len(seq) > n THEN SubSeq(seq, Len(seq) - n + 1, Len(seq)) ELSE seq

\* mutant: the trim keeps the oldest entries
TrimOldest(history) ==
    IF Len(history) > max_session_history
    THEN SubSeq(history, 1, max_session_history)
    ELSE history

\* record_session_result, "Trim history"
TrimHistory(history) ==
    IF Len(history) > max_session_history
    THEN LastN(history, max_session_history)
    ELSE history

\* mutant: a success leaves degraded_mode as it was
StreaksKeepDegraded(st, success) ==
    IF success
    THEN [st EXCEPT !.consecutive_successes = @ + 1,
                    !.consecutive_errors = 0]
    ELSE [st EXCEPT !.consecutive_errors = @ + 1,
                    !.consecutive_successes = 0]

\* mutant: a success does not reset consecutive_errors
StreaksErrorsKept(st, success) ==
    IF success
    THEN [st EXCEPT !.consecutive_successes = @ + 1,
                    !.degraded_mode = FALSE]
    ELSE [st EXCEPT !.consecutive_errors = @ + 1,
                    !.consecutive_successes = 0]

\* mutant: a failure does not reset consecutive_successes
StreaksNoReset(st, success) ==
    IF success
    THEN [st EXCEPT !.consecutive_successes = @ + 1,
                    !.consecutive_errors = 0,
                    !.degraded_mode = FALSE]
    ELSE [st EXCEPT !.consecutive_errors = @ + 1]

\* record_session_result, the success / failure branch
UpdateStreaks(st, success) ==
    IF success
    THEN [st EXCEPT !.consecutive_successes = @ + 1,
                    !.consecutive_errors = 0,
                    !.degraded_mode = FALSE]
    ELSE [st EXCEPT !.consecutive_errors = @ + 1,
                    !.consecutive_successes = 0]

\* AutonomyState.record_session_result(success, health)
record_session_result(st, success, health) ==
    LET counted == [st EXCEPT !.total_sessions = @ + 1]
        streaks == UpdateStreaks(counted, success)
        appended == Append(streaks.session_history, Summary(success, health))
    IN  [streaks EXCEPT
            !.session_history = TrimHistory(appended),
            !.total_issues_completed = @ + health.issues_worked]

\* mutant: the pause grows without the 600 s cap
PauseUncapped(st) ==
    PauseBase * Pow2(st.consecutive_errors - error_threshold_for_pause)

\* should_pause: min(30 * (2 ** (consecutive_errors - threshold)), 600)
PauseDuration(st) ==
    Min(PauseBase * Pow2(st.consecutive_errors - error_threshold_for_pause),
        PauseCap)

\* AutonomyState.should_pause().  The clock is read once in the test of the
\* first branch (t1) and once more in the branch taken (t2 >= t1); with
\* pause_until None the test reads no clock.  Gives the new state and the
\* returned pair.
should_pause(st, t1, t2) ==
    IF st.pause_until # None /\ t1 < st.pause_until[1]
    THEN [state |-> st, ret |-> <<TRUE, st.pause_until[1] - t2>>]
    ELSE IF st.consecutive_errors >= error_threshold_for_pause
         THEN [state |-> [st EXCEPT !.pause_until = <<t2 + PauseDuration(st)>>],
               ret |-> <<TRUE, PauseDuration(st)>>]
         ELSE [state |-> st, ret |-> <<FALSE, 0>>]

\* AutonomyState.enter_degraded_mode(reason)
enter_degraded_mode(st) == [st EXCEPT !.degraded_mode = TRUE]

-----------------------------------------------------------------------------
(* Watchdog *)

\* agent.py: the timeout the session loop builds its Watchdog with
WATCHDOG_TIMEOUT_SECONDS == 300
\* _monitor: "Check every 10 seconds"
MonitorPollSeconds == 10

\* Watchdog.__init__(timeout_seconds) at clock t; task 0 is _task = None
Watchdog(timeout_seconds, t) ==
    [timeout_seconds |-> timeout_seconds,
     last_pet |-> t,
     running |-> FALSE,
     task |-> 0]

\* Watchdog.pet() at clock t
pet(w, t) == [w EXCEPT !.last_pet = t]

\* asyncio.create_task(self._monitor()): scheduled, not yet run
NewTask == [status |-> "created", wake |-> 0]

\* a task whose coroutine returned or was cancelled
EndedTask == [status |-> "done", wake |-> 0]

\* mutant: start() leaves the clock of the last pet as it was
StartKeepsClock(w, t, n) == [w EXCEPT !.running = TRUE, !.task = n]

\* Watchdog.start() at clock t; the new task gets number n
start(w, t, n) == [pet([w EXCEPT !.running = TRUE], t) EXCEPT !.task = n]

\* mutant: stop() leaves _running set
StopKeepsRunning(w) == w

\* Watchdog.stop(): self._running = False
StopFlag(w) == [w EXCEPT !.running = FALSE]

\* task.cancel(): a task that is not done gets a CancelledError at its next
\* resumption; a done task is left as it is
cancel(task) ==
    IF task.status = "done" THEN task ELSE [task EXCEPT !.status = "cancelled"]

\* _monitor: the test of one pass of the loop, elapsed > timeout_seconds
Breach(w, t) == t - w.last_pet > w.timeout_seconds

\* mutant: the monitor does not reset the clock after the callback
MonitorNoReset(w, t) == w

\* _monitor: self.pet()  "Reset after triggering"
MonitorReset(w, t) == pet(w, t)

-----------------------------------------------------------------------------
(* SpecState: any sequence of record_session_result calls on a fresh       *)
(* AutonomyState                                                           *)

\* a session that worked one issue
WorkedHealth == [tool_calls |-> 2, errors |-> 1, issues_worked |-> 1]

\* a Watchdog that was built and never started
WatchIdle ==
    /\ watchdog = Watchdog(WATCHDOG_TIMEOUT_SECONDS, 0)
    /\ tasks = <<>>
    /\ wpc = "idle"
    /\ fires = 0
    /\ last_fire = None
    /\ stopped = FALSE

\* run_autonomous_agent was not called
LoopIdle ==
    /\ loop = [pc |-> "idle"]
    /\ session_health = NewSessionHealth
    /\ state_file = <<>>

\* no function is under study
CallIdle == call = [fn |-> "none"]

InitState ==
    /\ CallIdle
    /\ WatchIdle
    /\ LoopIdle
    /\ now = 0
    /\ autonomy_state = NewAutonomyState
    /\ pause_result = <<FALSE, 0>>
    /\ pause_test = 0
    /\ calls = <<>>
    /\ op = "init"

RecordSessionResult(success, health) ==
    /\ autonomy_state' = record_session_result(autonomy_state, success, health)
    /\ calls' = Append(calls, Summary(success, health))
    /\ op' = "record_session_result"
    /\ UNCHANGED <<now, pause_result, pause_test>>

\* autonomy_state.enter_degraded_mode(reason)
EnterDegradedMode ==
    /\ autonomy_state' = enter_degraded_mode(autonomy_state)
    /\ op' = "enter_degraded_mode"
    /\ UNCHANGED <<now, pause_result, pause_test, calls>>

NextState ==
    \/ /\ Len(calls) < MaxSessions
       /\ \E success \in BOOLEAN : RecordSessionResult(success, NewSessionHealth)
       /\ UNCHANGED <<wdVars, loopVars, call>>
    \/ /\ Len(calls) < MaxSessions
       /\ autonomy_state.total_issues_completed < MaxIssues
       /\ \E success \in BOOLEAN : RecordSessionResult(success, WorkedHealth)
       /\ UNCHANGED <<wdVars, loopVars, call>>
    \/ /\ ~autonomy_state.degraded_mode
       /\ EnterDegradedMode
       /\ UNCHANGED <<wdVars, loopVars, call>>

SpecState == InitState /\ [][NextState]_vars

-----------------------------------------------------------------------------
(* SpecPause: should_pause on the state left by a streak of failed         *)
(* sessions, with the clock running                                        *)

\* a fresh AutonomyState after n failed sessions
RECURSIVE AfterFailures(_)
AfterFailures(n) ==
    IF n = 0 THEN NewAutonomyState
    ELSE record_session_result(AfterFailures(n - 1), FALSE, NewSessionHealth)

InitPause ==
    /\ CallIdle
    /\ WatchIdle
    /\ LoopIdle
    /\ now = 0
    /\ \E n \in 0..MaxStartErrors : autonomy_state = AfterFailures(n)
    /\ pause_result = <<FALSE, 0>>
    /\ pause_test = 0
    /\ calls = <<>>
    /\ op = "init"

ShouldPause(d1, d2) ==
    LET t1 == now + d1
        t2 == t1 + d2
        r == should_pause(autonomy_state, t1, t2)
    IN  /\ now' = t2
        /\ autonomy_state' = r.state
        /\ pause_result' = r.ret
        /\ pause_test' = t1
        /\ op' = "should_pause"
        /\ UNCHANGED calls

Elapse(d) ==
    /\ now' = now + d
    /\ op' = "elapse"
    /\ UNCHANGED <<autonomy_state, pause_result, pause_test, calls>>

NextPause ==
    \/ /\ Len(calls) < MaxPauseRecords
       /\ \E success \in BOOLEAN : RecordSessionResult(success, NewSessionHealth)
       /\ UNCHANGED <<wdVars, loopVars, call>>
    \/ /\ \E d1 \in ClockSteps, d2 \in ClockSteps :
            /\ now + d1 + d2 <= MaxClock
            /\ ShouldPause(d1, d2)
       /\ UNCHANGED <<wdVars, loopVars, call>>
    \/ /\ \E d \in ElapseSteps : now + d <= MaxClock /\ Elapse(d)
       /\ UNCHANGED <<wdVars, loopVars, call>>

SpecPause == InitPause /\ [][NextPause]_vars

-----------------------------------------------------------------------------
(* Properties of AutonomyState *)

\* the success flag of the summary a record_session_result step appended
RecordedSuccess == calls'[Len(calls')].success

\* C4: starting from a fresh AutonomyState, consecutive_errors and
\* consecutive_successes are never both positive; a successful session
\* leaves consecutive_errors at 0 and raises consecutive_successes by one, a
\* failed session leaves consecutive_successes at 0 and raises
\* consecutive_errors by one.
C4_StreaksExclusive ==
    /\ [](~(autonomy_state.consecutive_errors > 0
            /\ autonomy_state.consecutive_successes > 0))
    /\ [][op' = "record_session_result" /\ Len(calls') = Len(calls) + 1 =>
            IF RecordedSuccess
            THEN /\ autonomy_state'.consecutive_errors = 0
                 /\ autonomy_state'.consecutive_successes
                        = autonomy_state.consecutive_successes + 1
            ELSE /\ autonomy_state'.consecutive_successes = 0
                 /\ autonomy_state'.consecutive_errors
                        = autonomy_state.consecutive_errors + 1]_asVars

\* a failure streak that follows a success streak
C4_Witness ==
    /\ Len(calls) = 4
    /\ calls[1].success /\ calls[2].success
    /\ ~calls[3].success /\ ~calls[4].success
    /\ autonomy_state.consecutive_errors = 2
    /\ autonomy_state.consecutive_successes = 0

\* C8: after n record_session_result calls session_history has
\* min(n, 10) entries, the most recent ones in the order they were recorded.
C8_HistoryBounded ==
    LET h == autonomy_state.session_history
        n == Len(calls)
    IN  /\ Len(h) <= 10
        /\ Len(h) = IF n < 10 THEN n ELSE 10
        /\ \A i \in 1..Len(h) : h[i] = calls[n - Len(h) + i]

\* an eviction happened and the evicted summary differs from the newest one
C8_Witness ==
    /\ Len(calls) > 10
    /\ Len(autonomy_state.session_history) = 10
    /\ calls[1] # calls[Len(calls)]
    /\ autonomy_state.session_history[1] = calls[Len(calls) - 9]

\* C20: a successful session leaves degraded_mode false and a failed session
\* leaves it as it was, so after enter_degraded_mode it stays true across
\* failed sessions until the next successful one.
C20_DegradedUntilSuccess ==
    /\ [][op' = "record_session_result" /\ Len(calls') = Len(calls) + 1 =>
            IF RecordedSuccess
            THEN autonomy_state'.degraded_mode = FALSE
            ELSE autonomy_state'.degraded_mode = autonomy_state.degraded_mode
       ]_asVars
    /\ [][op' = "enter_degraded_mode" => autonomy_state'.degraded_mode]_asVars

\* degraded mode was entered after a success and has lasted two failed
\* sessions
C20_Witness ==
    /\ op = "record_session_result"
    /\ autonomy_state.degraded_mode
    /\ Len(calls) = 3
    /\ calls[1].success /\ ~calls[2].success /\ ~calls[3].success
    /\ autonomy_state.consecutive_errors = 2

\* the state a should_pause step was called in has a pause_until that the
\* test of the call found still in the future
Unexpired ==
    /\ autonomy_state.pause_until # None
    /\ pause_test' < autonomy_state.pause_until[1]

\* C5: should_pause() returns (true, d) with d > 0 exactly when pause_until
\* is set and still in the future or consecutive_errors >= the threshold,
\* and (false, 0) in every other state.
C5_ShouldPauseExact ==
    [][op' = "should_pause" =>
        IF Unexpired \/ autonomy_state.consecutive_errors >= 5
        THEN pause_result'[1] = TRUE /\ pause_result'[2] > 0
        ELSE pause_result' = <<FALSE, 0>>]_asVars

\* the pause lengths of the claim: 30, 60, 120, 240, 480, then 600
ExpectedPause(k) ==
    IF k = 0 THEN 30
    ELSE IF k = 1 THEN 60
    ELSE IF k = 2 THEN 120
    ELSE IF k = 3 THEN 240
    ELSE IF k = 4 THEN 480
    ELSE 600

\* C6: with no unexpired pause_until and consecutive_errors = 5 + k, k >= 0,
\* should_pause() returns (true, min(30 * 2^k, 600)) and sets pause_until to
\* the clock plus that duration; after three failed sessions from a fresh
\* state it returns (false, 0), after five (true, 30).
C6_EscalatingPause ==
    [][op' = "should_pause" =>
        /\ (~Unexpired /\ autonomy_state.consecutive_errors >= 5) =>
              LET d == ExpectedPause(autonomy_state.consecutive_errors - 5)
              IN  /\ pause_result' = <<TRUE, d>>
                  /\ autonomy_state'.pause_until = <<now' + d>>
        /\ autonomy_state = AfterFailures(3) => pause_result' = <<FALSE, 0>>
        /\ autonomy_state = AfterFailures(5) => pause_result' = <<TRUE, 30>>
    ]_asVars

\* the capped pause was returned and scheduled
C6_Witness ==
    /\ op = "should_pause"
    /\ autonomy_state.consecutive_errors >= 10
    /\ pause_result = <<TRUE, 600>>
    /\ autonomy_state.pause_until = <<now + 600>>

-----------------------------------------------------------------------------
(* SpecWatch: one Watchdog, the monitor tasks it created and one caller of  *)
(* start(), pet() and stop(), on one event loop                            *)

InitWatch ==
    /\ CallIdle
    /\ LoopIdle
    /\ now = 0
    /\ autonomy_state = NewAutonomyState
    /\ pause_result = <<FALSE, 0>>
    /\ pause_test = 0
    /\ calls = <<>>
    /\ op = "init"
    /\ \E timeout \in WatchTimeouts : watchdog = Watchdog(timeout, 0)
    /\ tasks = <<>>
    /\ wpc = "idle"
    /\ fires = 0
    /\ last_fire = None
    /\ stopped = FALSE

\* await watchdog.start()
WatchdogStart ==
    /\ wpc = "idle"
    /\ watchdog' = start(watchdog, now, Len(tasks) + 1)
    /\ tasks' = Append(tasks, NewTask)
    /\ stopped' = FALSE
    /\ UNCHANGED <<wpc, fires, last_fire>>

\* watchdog.pet()
WatchdogPet ==
    /\ wpc = "idle"
    /\ watchdog' = pet(watchdog, now)
    /\ UNCHANGED <<tasks, wpc, fires, last_fire, stopped>>

\* await watchdog.stop(), up to "await self._task": with no task, or a task
\* that is done, the call returns at once
WatchdogStopBegin ==
    /\ wpc = "idle"
    /\ watchdog' = StopFlag(watchdog)
    /\ IF watchdog.task # 0 /\ tasks[watchdog.task].status # "done"
       THEN /\ tasks' = [tasks EXCEPT ![watchdog.task] = cancel(@)]
            /\ wpc' = "stop_await"
            /\ UNCHANGED stopped
       ELSE /\ stopped' = TRUE
            /\ UNCHANGED <<tasks, wpc>>
    /\ UNCHANGED <<fires, last_fire>>

\* the awaited task has ended: stop() catches CancelledError and returns
WatchdogStopReturn ==
    /\ wpc = "stop_await"
    /\ tasks[watchdog.task].status = "done"
    /\ wpc' = "idle"
    /\ stopped' = TRUE
    /\ UNCHANGED <<watchdog, tasks, fires, last_fire>>

\* a cancelled monitor task is resumed with CancelledError and ends
MonitorCancelled(i) ==
    /\ tasks[i].status = "cancelled"
    /\ tasks' = [tasks EXCEPT ![i] = EndedTask]
    /\ UNCHANGED <<watchdog, wpc, fires, last_fire, stopped>>

\* one pass of _monitor's loop, from the while test to asyncio.sleep(10):
\* the task runs for the first time or its sleep is over
MonitorPoll(i) ==
    /\ \/ tasks[i].status = "created"
       \/ tasks[i].status = "sleeping" /\ now >= tasks[i].wake
    /\ IF ~watchdog.running
       THEN /\ tasks' = [tasks EXCEPT ![i] = EndedTask]
            /\ UNCHANGED <<watchdog, fires, last_fire>>
       ELSE /\ tasks' = [tasks EXCEPT ![i] =
                    [status |-> "sleeping", wake |-> now + MonitorPollSeconds]]
            /\ IF Breach(watchdog, now)
               THEN /\ fires' = fires + 1
                    /\ last_fire' = <<now>>
                    /\ watchdog' = MonitorReset(watchdog, now)
               ELSE UNCHANGED <<watchdog, fires, last_fire>>
    /\ UNCHANGED <<wpc, stopped>>

Tick(d) ==
    /\ now' = now + d
    /\ UNCHANGED wdVars

NextWatch ==
    \/ Len(tasks) < MaxTasks /\ WatchdogStart /\ UNCHANGED <<asVars, loopVars, call>>
    \/ WatchdogPet /\ UNCHANGED <<asVars, loopVars, call>>
    \/ WatchdogStopBegin /\ UNCHANGED <<asVars, loopVars, call>>
    \/ WatchdogStopReturn /\ UNCHANGED <<asVars, loopVars, call>>
    \/ /\ \E i \in 1..Len(tasks) : MonitorCancelled(i)
       /\ UNCHANGED <<asVars, loopVars, call>>
    \/ /\ \E i \in 1..Len(tasks) : MonitorPoll(i)
       /\ UNCHANGED <<asVars, loopVars, call>>
    \/ /\ \E d \in TickSteps : now + d <= MaxWatchClock /\ Tick(d)
       /\ UNCHANGED <<autonomy_state, pause_result, pause_test, calls, op>>
       /\ UNCHANGED <<loopVars, call>>

SpecWatch == InitWatch /\ [][NextWatch]_vars

-----------------------------------------------------------------------------
(* Properties of the Watchdog *)

\* C9: once stop() has returned, the timeout callback is not invoked until
\* start() is called again, whatever the monitor tasks do.
C9_NoFireAfterStop ==
    [][stopped => fires' = fires]_vars

\* stop() has returned after a breach was reported, with two monitor tasks
\* created and both ended
C9_Witness ==
    /\ stopped
    /\ fires > 0
    /\ Len(tasks) = 2
    /\ \A i \in 1..Len(tasks) : tasks[i].status = "done"
    /\ now - watchdog.last_pet > watchdog.timeout_seconds

\* C10: the callback is invoked once per breach, only when more than
\* timeout_seconds have passed since the last pet; the clock is then reset,
\* and the next invocation comes more than timeout_seconds later.
C10_OncePerBreach ==
    [][fires' # fires =>
        /\ fires' = fires + 1
        /\ now - watchdog.last_pet > watchdog.timeout_seconds
        /\ watchdog'.last_pet = now
        /\ last_fire # None => now - last_fire[1] > watchdog.timeout_seconds
    ]_vars

\* a second invocation, after a still-hung session was polled in between
\* without an invocation
C10_Witness ==
    /\ fires = 2
    /\ Len(tasks) = 1
    /\ watchdog.running
    /\ watchdog.last_pet = last_fire[1]
    /\ watchdog.timeout_seconds = 10

-----------------------------------------------------------------------------
(* SpecNoPet: a Watchdog that is started and stopped but never petted, with *)
(* the clock moving second by second                                       *)

\* the last clock value of SpecNoPet
MaxNoPetClock == 12
\* seconds that may pass between two steps of SpecNoPet
NoPetTicks == {1}

NextNoPet ==
    \/ Len(tasks) < MaxTasks /\ WatchdogStart /\ UNCHANGED <<asVars, loopVars, call>>
    \/ WatchdogStopBegin /\ UNCHANGED <<asVars, loopVars, call>>
    \/ WatchdogStopReturn /\ UNCHANGED <<asVars, loopVars, call>>
    \/ /\ \E i \in 1..Len(tasks) : MonitorCancelled(i)
       /\ UNCHANGED <<asVars, loopVars, call>>
    \/ /\ \E i \in 1..Len(tasks) : MonitorPoll(i)
       /\ UNCHANGED <<asVars, loopVars, call>>
    \/ /\ \E d \in NoPetTicks : now + d <= MaxNoPetClock /\ Tick(d)
       /\ UNCHANGED <<autonomy_state, pause_result, pause_test, calls, op>>
       /\ UNCHANGED <<loopVars, call>>

SpecNoPet == InitWatch /\ [][NextNoPet]_vars

\* C11: a watchdog started once with timeout 5 s and never petted has
\* invoked its callback before 7 s have passed since start(): while its
\* monitor waits for the next poll and no callback was invoked yet, fewer
\* than 7 s have passed since the start (last_pet is the time of start()
\* until the first invocation).
C11_FiresBeforeSeven ==
    (/\ watchdog.timeout_seconds = 5
     /\ watchdog.running
     /\ Len(tasks) = 1
     /\ tasks[1].status = "sleeping"
     /\ fires = 0)
        => now - watchdog.last_pet < 7

-----------------------------------------------------------------------------
(* classify_error.  An error text is the set of the keywords that occur in  *)
(* its lower-cased form.                                                   *)

\* class ErrorCategory(Enum)
ErrorCategory ==
    {"TRANSIENT", "RATE_LIMIT", "AUTH", "RESOURCE", "LINEAR_API", "PUPPETEER",
     "VALIDATION", "UNKNOWN"}

AuthKeywords ==
    {"unauthorized", "401", "authentication", "invalid token", "expired token"}
RateLimitKeywords == {"rate limit", "429", "too many requests", "throttl"}
LinearKeywords == {"linear", "mcp__linear", "graphql"}
PuppeteerKeywords ==
    {"puppeteer", "browser", "chrome", "timeout waiting for", "navigation"}
ResourceKeywords == {"out of memory", "context", "max_turns", "resource"}
ValidationKeywords == {"blocked", "not allowed", "permission denied", "security"}
TransientKeywords ==
    {"timeout", "connection", "network", "temporary", "econnreset", "503", "502"}

classify_error(error_text) ==
    IF error_text \cap AuthKeywords # {} THEN "AUTH"
    ELSE IF error_text \cap RateLimitKeywords # {} THEN "RATE_LIMIT"
    ELSE IF error_text \cap LinearKeywords # {} THEN "LINEAR_API"
    ELSE IF error_text \cap PuppeteerKeywords # {} THEN "PUPPETEER"
    ELSE IF error_text \cap ResourceKeywords # {} THEN "RESOURCE"
    ELSE IF error_text \cap ValidationKeywords # {} THEN "VALIDATION"
    ELSE IF error_text \cap TransientKeywords # {} THEN "TRANSIENT"
    ELSE "UNKNOWN"

\* SessionHealth.record_activity()
record_activity(health) == [health EXCEPT !.tool_calls = @ + 1]

\* SessionHealth.record_error(category)
record_error(health, category) == [health EXCEPT !.errors = @ + 1]

-----------------------------------------------------------------------------
(* SpecClassify: classify_error on a written text.  A text is a set of      *)
(* fragments; a fragment is a word and whether it is written with capital   *)
(* letters ("Unauthorized", "GRAPHQL") or all in lower case.                *)

\* the words of the texts explored: keywords of every category and a filler
Vocabulary ==
    {"401", "unauthorized", "429", "rate limit", "mcp__linear", "graphql",
     "timeout waiting for", "context", "blocked", "timeout", "hello"}
\* the words without a letter have one way to be written
Digits == {"401", "429"}
Fragments ==
    {f \in [word : Vocabulary, capitals : BOOLEAN] :
        f.word \in Digits => ~f.capitals}
\* fragments of one text
MaxFragments == 2

\* "kw in error_lower" for one fragment written in lower case: the keyword
\* is the word or a part of it
Contains(word, kw) ==
    \/ word = kw
    \/ word = "mcp__linear" /\ kw = "linear"
    \/ word = "timeout waiting for" /\ kw = "timeout"

\* mutant: the text is matched as written
KeepCase(error_text) == error_text

\* error_text.lower()
lower(error_text) == {[f EXCEPT !.capitals = FALSE] : f \in error_text}

\* the keywords that occur in a text as it is written: a keyword is in lower
\* case and does not occur in a fragment written with capitals
Occurring(written) ==
    {kw \in AuthKeywords \cup RateLimitKeywords \cup LinearKeywords
            \cup PuppeteerKeywords \cup ResourceKeywords
            \cup ValidationKeywords \cup TransientKeywords :
        \E f \in written : ~f.capitals /\ Contains(f.word, kw)}

\* classify_error(error_text) for a written text
ClassifyText(error_text) == classify_error(Occurring(lower(error_text)))

InitClassify ==
    /\ WatchIdle
    /\ LoopIdle
    /\ now = 0
    /\ autonomy_state = NewAutonomyState
    /\ pause_result = <<FALSE, 0>>
    /\ pause_test = 0
    /\ calls = <<>>
    /\ op = "init"
    /\ \E error_text \in SUBSET Fragments :
          /\ Cardinality(error_text) <= MaxFragments
          /\ call = [fn |-> "classify_error", error_text |-> error_text,
                     categories |-> <<>>]

\* classify_error(error_text) is called, a first and a second time
Classify ==
    /\ Len(call.categories) < 2
    /\ call' = [call EXCEPT !.categories =
                    Append(@, ClassifyText(call.error_text))]

NextClassify ==
    /\ Classify
    /\ UNCHANGED <<asVars, wdVars, loopVars>>

SpecClassify == InitClassify /\ [][NextClassify]_vars

\* the order of the tests and the keywords of each
CategoryOrder ==
    <<"AUTH", "RATE_LIMIT", "LINEAR_API", "PUPPETEER", "RESOURCE",
      "VALIDATION", "TRANSIENT">>
KeywordsOf(category) ==
    CASE category = "AUTH" -> AuthKeywords
      [] category = "RATE_LIMIT" -> RateLimitKeywords
      [] category = "LINEAR_API" -> LinearKeywords
      [] category = "PUPPETEER" -> PuppeteerKeywords
      [] category = "RESOURCE" -> ResourceKeywords
      [] category = "VALIDATION" -> ValidationKeywords
      [] category = "TRANSIENT" -> TransientKeywords

\* a keyword of the category occurs in the text of the call, in any case
Matches(category) ==
    \E f \in call.error_text, kw \in KeywordsOf(category) : Contains(f.word, kw)

\* C17: classify_error returns a category for every text: the first one in
\* the order AUTH, RATE_LIMIT, LINEAR_API, PUPPETEER, RESOURCE, VALIDATION,
\* TRANSIENT with a keyword occurring in the text in any case, UNKNOWN when
\* there is none; a text with an authentication keyword gives AUTH, and a
\* second classification of the text gives the same category.
C17_FirstMatchWins ==
    \A n \in 1..Len(call.categories) :
        LET category == call.categories[n]
            hits == {i \in 1..Len(CategoryOrder) : Matches(CategoryOrder[i])}
        IN  /\ category \in ErrorCategory
            /\ hits = {} => category = "UNKNOWN"
            /\ hits # {} =>
                  \E i \in hits : /\ category = CategoryOrder[i]
                                   /\ \A j \in hits : i <= j
            /\ Matches("AUTH") => category = "AUTH"
            /\ category = call.categories[1]

\* "Unauthorized" and "GRAPHQL" in one text, classified twice as AUTH
C17_Witness ==
    /\ call.error_text = {[word |-> "unauthorized", capitals |-> TRUE],
                          [word |-> "graphql", capitals |-> TRUE]}
    /\ call.categories = <<"AUTH", "AUTH">>

-----------------------------------------------------------------------------
(* RetryConfig and RETRY_CONFIGS.  Delays are whole seconds in a config;    *)
(* get_delay gives quarters of a second, so that the jitter factor         *)
(* 0.5 + random.random() is (2 + r) / 4 for a draw r / 4.                  *)

\* RetryConfig(): the dataclass defaults
RetryConfig ==
    [max_retries |-> 5, initial_delay |-> 2, max_delay |-> 300,
     exponential_base |-> 2, jitter |-> TRUE]

RETRY_CONFIGS ==
    [c \in ErrorCategory |->
        CASE c = "TRANSIENT" ->
                [RetryConfig EXCEPT !.max_retries = 10, !.initial_delay = 1]
          [] c = "RATE_LIMIT" ->
                [RetryConfig EXCEPT !.max_retries = 5, !.initial_delay = 30,
                                    !.max_delay = 600]
          [] c = "AUTH" ->
                [RetryConfig EXCEPT !.max_retries = 1, !.initial_delay = 0]
          [] c = "RESOURCE" ->
                [RetryConfig EXCEPT !.max_retries = 3, !.initial_delay = 5]
          [] c = "LINEAR_API" ->
                [RetryConfig EXCEPT !.max_retries = 8, !.initial_delay = 5,
                                    !.max_delay = 120]
          [] c = "PUPPETEER" ->
                [RetryConfig EXCEPT !.max_retries = 5, !.initial_delay = 3]
          [] c = "VALIDATION" -> [RetryConfig EXCEPT !.max_retries = 0]
          [] c = "UNKNOWN" ->
                [RetryConfig EXCEPT !.max_retries = 5, !.initial_delay = 5]]

\* a float holds no value of 2.0 ** 1024 or more: "**" raises OverflowError
FloatMaxExponent == 1024

\* exponential_base ** attempt raises OverflowError
Overflows(base, attempt) == base >= 2 /\ attempt >= FloatMaxExponent

\* power * base ** n, with every value above cap given as cap
RECURSIVE CappedPower(_, _, _, _)
CappedPower(power, base, n, cap) ==
    IF n <= 0 \/ power >= cap THEN Min(power, cap)
    ELSE CappedPower(power * base, base, n - 1, cap)

\* get_delay: min(initial_delay * exponential_base ** attempt, max_delay), in
\* seconds.  A power above max_delay is kept as max_delay + 1: the product
\* is then 0 (initial_delay 0) or above max_delay, as with the full power.
CappedDelay(config, attempt) ==
    Min(config.initial_delay
            * CappedPower(1, config.exponential_base, attempt,
                          config.max_delay + 1),
        config.max_delay)

\* the draws r of random.random(), as r / 4
RandomQuarters == 0..3

\* RetryConfig.get_delay(attempt) with random.random() giving r / 4: the
\* exception raised, or "none" and the delay in quarters of a second
get_delay(config, attempt, r) ==
    IF Overflows(config.exponential_base, attempt)
    THEN [raises |-> "OverflowError", delay |-> 0]
    ELSE IF config.jitter
    THEN [raises |-> "none", delay |-> CappedDelay(config, attempt) * (2 + r)]
    ELSE [raises |-> "none", delay |-> CappedDelay(config, attempt) * 4]

-----------------------------------------------------------------------------
(* SpecDelay: get_delay called for an attempt and for the one after it      *)

\* the largest of the small attempt numbers
MaxAttempt == 11
\* attempt numbers at the end of the range of a float power of 2.0
HugeAttempts == {1022, 1023}
\* calls of get_delay in one behaviour
MaxDelayCalls == 2

\* the default policies, and the same without jitter
DelayConfigs ==
    {RETRY_CONFIGS[c] : c \in ErrorCategory}
        \cup {[RETRY_CONFIGS[c] EXCEPT !.jitter = FALSE] : c \in ErrorCategory}

InitDelay ==
    /\ WatchIdle
    /\ LoopIdle
    /\ now = 0
    /\ autonomy_state = NewAutonomyState
    /\ pause_result = <<FALSE, 0>>
    /\ pause_test = 0
    /\ calls = <<>>
    /\ op = "init"
    /\ \E config \in DelayConfigs, attempt \in (0..MaxAttempt) \cup HugeAttempts :
          call = [fn |-> "get_delay", config |-> config, attempt |-> attempt,
                  delays |-> <<>>]

\* config.get_delay(attempt), then config.get_delay(attempt + 1), ...; a call
\* that raised is the last one
GetDelay(r) ==
    /\ Len(call.delays) < MaxDelayCalls
    /\ \A i \in 1..Len(call.delays) : call.delays[i].raises = "none"
    /\ call' = [call EXCEPT !.delays =
                    Append(@, get_delay(call.config,
                                        call.attempt + Len(call.delays), r))]

NextDelay ==
    /\ \E r \in RandomQuarters : GetDelay(r)
    /\ UNCHANGED <<asVars, wdVars, loopVars>>

SpecDelay == InitDelay /\ [][NextDelay]_vars

\* min(initial_delay * 2^n, max_delay) for the i-th call, in seconds; every
\* max_delay is below 2^10
ExpectedDelay(i) ==
    LET n == call.attempt + i - 1
        initial == call.config.initial_delay
        max == call.config.max_delay
    IN  IF initial = 0 THEN 0
        ELSE IF \E k \in 0..Min(n, 10) : initial * Pow2(k) >= max THEN max
        ELSE initial * Pow2(n)

\* C15: for every attempt n >= 0, get_delay(n) without jitter is
\* min(initial_delay * exponential_base^n, max_delay), and with jitter it
\* lies in [0.5 * that value, 1.5 * that value) (for the value 0 the result
\* is 0).  Delays are in quarters of a second.
C15_DelayFormula ==
    \A i \in 1..Len(call.delays) :
        /\ call.delays[i].raises = "none"
        /\ IF ~call.config.jitter
           THEN call.delays[i].delay = 4 * ExpectedDelay(i)
           ELSE /\ 2 * ExpectedDelay(i) <= call.delays[i].delay
                /\ \/ call.delays[i].delay < 6 * ExpectedDelay(i)
                   \/ ExpectedDelay(i) = 0 /\ call.delays[i].delay = 0

\* what holds of the code: the same for every call that returned
C15_DelayFormulaIfReturned ==
    (\A i \in 1..Len(call.delays) : call.delays[i].raises = "none")
        => C15_DelayFormula

\* C16: for every default policy and every n >= 0 the delay for attempt n
\* is not larger than the delay for attempt n + 1, and no delay exceeds
\* 1.5 * max_delay.
C16_DelayMonotone ==
    call.config \in {RETRY_CONFIGS[c] : c \in ErrorCategory} =>
        /\ \A i \in 1..Len(call.delays) :
              /\ call.delays[i].raises = "none"
              /\ call.delays[i].delay <= 6 * call.config.max_delay
        /\ Len(call.delays) = 2 => call.delays[1].delay <= call.delays[2].delay

-----------------------------------------------------------------------------
(* SpecRetry: one call of retry_with_backoff(func, error_category=...)      *)

\* the failures func may raise: TRANSIENT, TRANSIENT, VALIDATION, AUTH, UNKNOWN
RetryTexts == {{"timeout"}, {"connection"}, {"blocked"}, {"401"}, {}}
\* the values func may return
RetryResults == {"a", "b"}
\* the categories the caller may declare
DeclaredCategories == ErrorCategory

\* line 375: RETRY_CONFIGS.get(error_category, RETRY_CONFIGS[UNKNOWN])
DeclaredConfig(error_category) ==
    IF error_category \in DOMAIN RETRY_CONFIGS THEN RETRY_CONFIGS[error_category]
    ELSE RETRY_CONFIGS["UNKNOWN"]

\* line 386: RETRY_CONFIGS.get(actual_category, config)
ActualConfig(text, config) ==
    IF classify_error(text) \in DOMAIN RETRY_CONFIGS
    THEN RETRY_CONFIGS[classify_error(text)]
    ELSE config

\* mutant: one more attempt than max_retries before giving up
ExhaustedLate(attempt, actual_config) == attempt > actual_config.max_retries

\* line 388: "if attempt >= actual_config.max_retries: break"
Exhausted(attempt, actual_config) == attempt >= actual_config.max_retries

\* mutant: the first exception is kept
KeepFirstException(previous, text) ==
    IF previous = None THEN <<text>> ELSE previous

\* line 382: last_exception = e
LastException(previous, text) == <<text>>

InitRetry ==
    /\ WatchIdle
    /\ LoopIdle
    /\ now = 0
    /\ autonomy_state = NewAutonomyState
    /\ pause_result = <<FALSE, 0>>
    /\ pause_test = 0
    /\ calls = <<>>
    /\ op = "init"
    /\ \E error_category \in DeclaredCategories :
          call = [fn |-> "retry_with_backoff",
                  error_category |-> error_category,
                  config |-> DeclaredConfig(error_category),
                  attempt |-> 0,
                  pc |-> "call",
                  last_exception |-> None,
                  delay |-> 0,
                  result |-> None,
                  raised |-> None,
                  \* ghosts: invocations of func, those that returned, the
                  \* last failure, the categories of all failures
                  invocations |-> 0,
                  successes |-> 0,
                  failure |-> None,
                  seen |-> {}]

\* line 380: func returns value, which retry_with_backoff returns
FuncReturns(value) ==
    /\ call.pc = "call"
    /\ call' = [call EXCEPT !.pc = "returned",
                            !.result = <<value>>,
                            !.invocations = @ + 1,
                            !.successes = @ + 1]

\* lines 381-397: func raises an exception with this text, which is
\* re-classified; the loop is left or the delay of the actual category is
\* slept; r / 4 is the draw of the jitter
FuncRaises(text, r) ==
    /\ call.pc = "call"
    /\ LET actual_config == ActualConfig(text, call.config)
           failed == [call EXCEPT
                        !.last_exception = LastException(@, text),
                        !.invocations = @ + 1,
                        !.failure = <<text>>,
                        !.seen = @ \cup {classify_error(text)}]
       IN  IF Exhausted(call.attempt, actual_config)
           THEN call' = [failed EXCEPT !.pc = "raised",
                                       !.raised = failed.last_exception]
           ELSE call' = [failed EXCEPT
                            !.pc = "sleep",
                            !.delay = get_delay(actual_config, call.attempt, r).delay]

\* line 397 and the head of the for loop: the sleep is over; the next
\* attempt starts, or range(config.max_retries + 1) is used up and line 399
\* raises last_exception
SleepOver ==
    /\ call.pc = "sleep"
    /\ call' = IF call.attempt + 1 > call.config.max_retries
               THEN [call EXCEPT !.attempt = @ + 1,
                                 !.pc = "raised",
                                 !.raised = call.last_exception]
               ELSE [call EXCEPT !.attempt = @ + 1, !.pc = "call"]

NextRetry ==
    \/ /\ \E value \in RetryResults : FuncReturns(value)
       /\ UNCHANGED <<asVars, wdVars, loopVars>>
    \/ /\ \E text \in RetryTexts, r \in RandomQuarters : FuncRaises(text, r)
       /\ UNCHANGED <<asVars, wdVars, loopVars>>
    \/ SleepOver /\ UNCHANGED <<asVars, wdVars, loopVars>>

SpecRetry == InitRetry /\ [][NextRetry]_vars

\* C12: when every failure of the operation classifies as category C,
\* retry_with_backoff invokes it C.max_retries + 1 times, sleeping C's delays
\* in between, before it re-raises, whatever category the caller declared.
C12_ActualCategoryWins ==
    \A c \in ErrorCategory :
        call.seen = {c} =>
            /\ call.pc = "raised" =>
                  call.invocations = RETRY_CONFIGS[c].max_retries + 1
            /\ call.pc = "sleep" =>
                  \E r \in RandomQuarters :
                      call.delay = get_delay(RETRY_CONFIGS[c], call.attempt, r).delay

\* what holds of the code: the smaller of the declared and the actual
\* max_retries decides
C12_SmallerLimitWins ==
    \A c \in ErrorCategory :
        (call.seen = {c} /\ call.pc = "raised") =>
            call.invocations
                = Min(RETRY_CONFIGS[c].max_retries, call.config.max_retries) + 1

\* C13: a failure that classifies as VALIDATION is never retried: the call
\* re-raises it at once, and an operation whose failures are all VALIDATION
\* is invoked exactly once, for every declared category.
C13_BlockedNeverRetried ==
    /\ (call.failure # None /\ classify_error(call.failure[1]) = "VALIDATION")
          => call.pc = "raised" /\ call.raised = call.failure
    /\ call.seen = {"VALIDATION"} => call.invocations = 1

\* a blocked failure ended a call that had retried two other failures
C13_Witness ==
    /\ call.pc = "raised"
    /\ call.error_category = "TRANSIENT"
    /\ call.invocations = 3
    /\ call.seen = {"TRANSIENT", "VALIDATION"}
    /\ call.raised = <<{"blocked"}>>

\* C14: the call returns the result of the first invocation that succeeds
\* and invokes nothing after it; when no invocation succeeds it raises the
\* exception of the last invocation and returns no value.
C14_ReturnsOrRaisesLast ==
    /\ call.successes = 1 <=> call.pc = "returned"
    /\ call.successes <= 1
    /\ call.pc = "returned" => call.result # None /\ call.raised = None
    /\ call.pc = "raised" =>
          /\ call.result = None
          /\ call.failure # None
          /\ call.raised = call.failure
    /\ call.pc \in {"call", "sleep"} => call.result = None /\ call.raised = None

\* the call gave up after failures with different texts
C14_Witness ==
    /\ call.pc = "raised"
    /\ call.invocations = 6
    /\ call.seen = {"TRANSIENT", "UNKNOWN"}
    /\ call.raised = <<{}>>

-----------------------------------------------------------------------------
(* The state file *)

\* datetime.isoformat(): the written form of a datetime
isoformat(t) == [iso |-> t]

\* datetime.fromisoformat(text)
fromisoformat(text) == text.iso

\* the keys of the dict that save_autonomy_state writes, in the order
\* json.dump writes them ("last_updated", which nothing reads, is left out)
SavedKeys ==
    <<"consecutive_errors", "consecutive_successes", "total_sessions",
      "total_issues_completed", "degraded_mode", "pause_until",
      "session_history">>

\* save_autonomy_state: the dict written to .autonomy_state.json; a JSON
\* null is None, a JSON string s is <<s>>
save_autonomy_state(st) ==
    <<[consecutive_errors |-> st.consecutive_errors,
       consecutive_successes |-> st.consecutive_successes,
       total_sessions |-> st.total_sessions,
       total_issues_completed |-> st.total_issues_completed,
       degraded_mode |-> st.degraded_mode,
       pause_until |-> IF st.pause_until # None
                       THEN <<isoformat(st.pause_until[1])>>
                       ELSE None,
       session_history |-> st.session_history]>>

\* the file after json.dump was cut off behind the first k keys
PartialFile(file, k) ==
    <<[key \in {SavedKeys[i] : i \in 1..k} |-> file[1][key]]>>

\* json.load succeeds: the text in the file is a whole dict
ParsesAsJson(file) == DOMAIN file[1] = {SavedKeys[i] : i \in 1..Len(SavedKeys)}

\* mutant: a pause that has passed is loaded as it was saved
LoadKeepsPause(file, t) ==
    IF file = <<>> THEN NewAutonomyState
    ELSE IF ~ParsesAsJson(file) THEN NewAutonomyState
    ELSE LET data == file[1]
         IN  [consecutive_errors |-> data.consecutive_errors,
              consecutive_successes |-> data.consecutive_successes,
              total_sessions |-> data.total_sessions,
              total_issues_completed |-> data.total_issues_completed,
              degraded_mode |-> data.degraded_mode,
              session_history |-> data.session_history,
              pause_until |->
                  IF data.pause_until # None
                  THEN <<fromisoformat(data.pause_until[1])>>
                  ELSE None]

\* load_autonomy_state at clock t: the defaults without a file or when
\* json.load raises JSONDecodeError (no field is assigned before it), else
\* the saved fields, with a pause_until that has passed cleared
load_autonomy_state(file, t) ==
    IF file = <<>> THEN NewAutonomyState
    ELSE IF ~ParsesAsJson(file) THEN NewAutonomyState
    ELSE LET data == file[1]
         IN  [consecutive_errors |-> data.consecutive_errors,
              consecutive_successes |-> data.consecutive_successes,
              total_sessions |-> data.total_sessions,
              total_issues_completed |-> data.total_issues_completed,
              degraded_mode |-> data.degraded_mode,
              session_history |-> data.session_history,
              pause_until |->
                  IF data.pause_until # None
                  THEN IF t > fromisoformat(data.pause_until[1])
                       THEN None
                       ELSE <<fromisoformat(data.pause_until[1])>>
                  ELSE None]

-----------------------------------------------------------------------------
(* SpecPersist: a process that changes its AutonomyState, saves it and      *)
(* stops or dies, and the next process that loads the file                 *)

\* calls of record_session_result, saves begun, and the last clock value
MaxPersistRecords == 2
MaxSaves == 2
MaxPersistClock == 62
\* failed sessions before the initial state
PersistStartErrors == {0, 4}
\* seconds that may pass between two steps
PersistSteps == {31}

InitPersist ==
    /\ WatchIdle
    /\ now = 0
    /\ \E n \in PersistStartErrors : autonomy_state = AfterFailures(n)
    /\ pause_result = <<FALSE, 0>>
    /\ pause_test = 0
    /\ calls = <<>>
    /\ op = "init"
    /\ loop = [pc |-> "idle"]
    /\ session_health = NewSessionHealth
    /\ state_file = <<>>
    \* ghosts: the state of the last save that was completed, whether a
    \* later save was cut off, the saves begun
    /\ call = [fn |-> "save_autonomy_state", pc |-> "running",
               committed |-> None, interrupted |-> FALSE, saves |-> 0]

\* save_autonomy_state, line 417: open(state_file, "w") empties the file
SaveOpen ==
    /\ call.pc = "running"
    /\ call.saves < MaxSaves
    /\ state_file' = PartialFile(save_autonomy_state(autonomy_state), 0)
    /\ call' = [call EXCEPT !.pc = "writing", !.saves = @ + 1]
    /\ op' = "save"
    /\ UNCHANGED <<now, autonomy_state, pause_result, pause_test, calls>>

\* save_autonomy_state, line 418: json.dump writes the dict and the file is
\* closed
SaveDump ==
    /\ call.pc = "writing"
    /\ state_file' = save_autonomy_state(autonomy_state)
    /\ call' = [call EXCEPT !.pc = "running",
                            !.committed = <<autonomy_state>>,
                            !.interrupted = FALSE]
    /\ op' = "save"
    /\ UNCHANGED <<now, autonomy_state, pause_result, pause_test, calls>>

\* the process dies, or the write fails, after json.dump wrote k keys
SaveInterrupted(k) ==
    /\ call.pc = "writing"
    /\ state_file' = PartialFile(save_autonomy_state(autonomy_state), k)
    /\ call' = [call EXCEPT !.pc = "stopped", !.interrupted = TRUE]
    /\ op' = "save"
    /\ UNCHANGED <<now, autonomy_state, pause_result, pause_test, calls>>

\* the process ends between two saves
ProcessStops ==
    /\ call.pc = "running"
    /\ call' = [call EXCEPT !.pc = "stopped"]
    /\ op' = "stop"
    /\ UNCHANGED <<now, autonomy_state, pause_result, pause_test, calls,
                   state_file>>

\* a new process: autonomy_state = load_autonomy_state(project_dir)
LoadState ==
    /\ call.pc = "stopped"
    /\ autonomy_state' = load_autonomy_state(state_file, now)
    /\ call' = [call EXCEPT !.pc = "running"]
    /\ op' = "load"
    /\ UNCHANGED <<now, pause_result, pause_test, calls, state_file>>

NextPersist ==
    \/ /\ call.pc = "running"
       /\ Len(calls) < MaxPersistRecords
       /\ \E success \in BOOLEAN : RecordSessionResult(success, NewSessionHealth)
       /\ UNCHANGED <<wdVars, loopVars, call>>
    \/ /\ call.pc = "running"
       /\ ShouldPause(0, 0)
       /\ UNCHANGED <<wdVars, loopVars, call>>
    \/ /\ call.pc = "running"
       /\ EnterDegradedMode
       /\ UNCHANGED <<wdVars, loopVars, call>>
    \/ SaveOpen /\ UNCHANGED <<wdVars, loop, session_health>>
    \/ SaveDump /\ UNCHANGED <<wdVars, loop, session_health>>
    \/ /\ \E k \in 0..(Len(SavedKeys) - 1) : SaveInterrupted(k)
       /\ UNCHANGED <<wdVars, loop, session_health>>
    \/ ProcessStops /\ UNCHANGED <<wdVars, loop, session_health>>
    \/ LoadState /\ UNCHANGED <<wdVars, loop, session_health>>
    \/ /\ \E d \in PersistSteps : now + d <= MaxPersistClock /\ Elapse(d)
       /\ UNCHANGED <<wdVars, loopVars, call>>

SpecPersist == InitPersist /\ [][NextPersist]_vars

\* the state just loaded is the state of the last completed save, but for
\* pause_until, which is the saved one while it is in the future and None
\* once it has passed
LoadedIsCommitted ==
    LET saved == call.committed[1]
        loaded == autonomy_state
    IN  /\ loaded.consecutive_errors = saved.consecutive_errors
        /\ loaded.consecutive_successes = saved.consecutive_successes
        /\ loaded.total_sessions = saved.total_sessions
        /\ loaded.total_issues_completed = saved.total_issues_completed
        /\ loaded.degraded_mode = saved.degraded_mode
        /\ loaded.session_history = saved.session_history
        /\ saved.pause_until = None => loaded.pause_until = None
        /\ saved.pause_until # None =>
              /\ now < saved.pause_until[1] => loaded.pause_until = saved.pause_until
              /\ now > saved.pause_until[1] => loaded.pause_until = None

\* C18: load_autonomy_state after a completed save_autonomy_state gives
\* the saved counters, degraded_mode and session_history; pause_until is
\* the saved one while it is in the future and None once it has passed.
C18_SaveLoadRoundTrip ==
    (op = "load" /\ call.committed # None /\ ~call.interrupted)
        => LoadedIsCommitted

\* a state in degraded mode with six sessions was saved with a pause that
\* had passed when it was loaded
C18_Witness ==
    /\ op = "load"
    /\ ~call.interrupted
    /\ call.committed # None
    /\ call.committed[1].pause_until # None
    /\ call.committed[1].degraded_mode
    /\ call.committed[1].total_sessions = 6
    /\ autonomy_state.total_sessions = 6
    /\ autonomy_state.degraded_mode
    /\ autonomy_state.pause_until = None

\* C19: a save that is cut off leaves the file of the last completed save
\* as it was, so the next load gives that save's state.
C19_InterruptedSaveKeepsFile ==
    (op = "load" /\ call.committed # None /\ call.interrupted)
        => LoadedIsCommitted

-----------------------------------------------------------------------------
(* Spec: the session loop of run_autonomous_agent *)

\* agent.py: the wall-clock bound of one session
MAX_SESSION_DURATION_SECONDS == 1800
\* agent.py: the sleep after a session that ended in error / in timeout
ErrorDelaySeconds == 1
TimeoutDelaySeconds == 2

\* the failures an iteration may raise
ErrorTexts == {{"401"}, {"graphql"}, {}}

\* the runs explored: a first run on a new project, without a cap, and a
\* capped run that continues a project whose state file an earlier run saved
\* after four failed sessions in a row.  max_iterations is None or <<n>>.
Runs ==
    {[state_file |-> <<>>,
      max_iterations |-> None, add_spec |-> FALSE, add_features |-> FALSE,
      no_auto_stop |-> FALSE, is_first_run |-> TRUE],
     [state_file |-> save_autonomy_state(AfterFailures(4)),
      max_iterations |-> <<2>>, add_spec |-> FALSE, add_features |-> FALSE,
      no_auto_stop |-> TRUE, is_first_run |-> FALSE]}

\* the task of a run's first session: lines 385-395 on the arguments
FirstPrompt(run) ==
    IF run.add_spec THEN "add_spec"
    ELSE IF run.add_features THEN "add_features"
    ELSE IF run.is_first_run THEN "initializer"
    ELSE "coding"

\* the locals of run_autonomous_agent when its loop begins (line 352), for
\* the arguments of `run` and the total_sessions that were loaded
NewLoop(run, loaded_sessions) ==
    [pc |-> "loop_head",
     iteration |-> 0,
     max_iterations |-> run.max_iterations,
     add_spec |-> run.add_spec,
     add_features |-> run.add_features,
     is_first_run |-> run.is_first_run,
     no_auto_stop |-> run.no_auto_stop,
     status |-> "none",
     response |-> {},
     break |-> FALSE,
     pause_duration |-> 0,
     session_start |-> 0,
     base_prompt |-> "none",
     events |-> 0,
     \* a CancelledError is on its way out of the coroutine
     cancelling |-> FALSE,
     \* ghosts: sessions begun, where this iteration raised, why the loop
     \* ended, total_sessions as loaded, the iteration that called
     \* should_pause, the seconds it slept, the task the run began with, the
     \* task each session was sent ("none": no task yet), the project file
     \* the completion check of this iteration read (<<>> also when it was
     \* not called), whether the run was interrupted, the clock at the last
     \* sign of life of the session: its start or its last event, and
     \* degraded_mode as it was when the session started
     sessions |-> 0,
     raised |-> "none",
     exit_reason |-> "none",
     loaded_sessions |-> loaded_sessions,
     pause_checked |-> 0,
     slept |-> 0,
     mode |-> FirstPrompt(run),
     given |-> <<>>,
     checked |-> <<>>,
     interrupted |-> FALSE,
     last_event |-> 0,
     started_degraded |-> FALSE,
     \* the task description of the last session that got one
     enhanced_prompt |-> [base_prompt |-> "none", autonomy_context |-> FALSE,
                          degraded_notice |-> FALSE]]

\* run_autonomous_agent up to its loop, for one of `runs`
InitRun(runs) ==
    /\ CallIdle
    /\ now = 0
    /\ pause_result = <<FALSE, 0>>
    /\ pause_test = 0
    /\ calls = <<>>
    /\ op = "init"
    /\ WatchIdle
    /\ session_health = NewSessionHealth
    /\ \E run \in runs :
        /\ state_file = run.state_file
        /\ autonomy_state = load_autonomy_state(run.state_file, now)
        /\ loop = NewLoop(run, autonomy_state.total_sessions)

Init == InitRun(Runs)

\* "if max_iterations and iteration > max_iterations"
CapReached(max_iterations, iteration) ==
    /\ max_iterations # None
    /\ max_iterations[1] # 0
    /\ iteration > max_iterations[1]

\* mutant: the loop does not sleep the pause
NoPauseSleep(duration) == 0

\* asyncio.sleep(pause_duration): the seconds slept at least
PauseSleepSeconds(duration) == IF duration > 0 THEN duration ELSE 0

\* should_pause reads the clock in this state
ReadsClock(st) ==
    st.pause_until # None \/ st.consecutive_errors >= error_threshold_for_pause

\* lines 354-368: the head of an iteration, up to the pause decision; the
\* clock moves between the reads of should_pause
LoopHead(d1, d2) ==
    /\ loop.pc = "loop_head"
    /\ d1 + d2 > 0 => ReadsClock(autonomy_state)
    /\ IF CapReached(loop.max_iterations, loop.iteration + 1)
       THEN /\ loop' = [loop EXCEPT !.iteration = @ + 1,
                                    !.checked = <<>>,
                                    !.pc = "done",
                                    !.exit_reason = "max_iterations"]
            /\ UNCHANGED <<now, autonomy_state, pause_result, pause_test>>
       ELSE LET t1 == now + d1
                t2 == t1 + d2
                r == should_pause(autonomy_state, t1, t2)
            IN  /\ now' = t2
                /\ autonomy_state' = r.state
                /\ pause_result' = r.ret
                /\ pause_test' = t1
                /\ loop' = [loop EXCEPT
                        !.iteration = @ + 1,
                        !.checked = <<>>,
                        !.pause_checked = loop.iteration + 1,
                        !.slept = 0,
                        !.pause_duration = r.ret[2],
                        !.pc = IF r.ret[1] THEN "pause_sleep" ELSE "start_session"]
    /\ UNCHANGED <<calls, op, wdVars, session_health, state_file>>

\* line 368: await asyncio.sleep(pause_duration), over after at least that long
PauseSleep(late) ==
    /\ loop.pc = "pause_sleep"
    /\ now' = now + PauseSleepSeconds(loop.pause_duration) + late
    /\ loop' = [loop EXCEPT !.pc = "start_session", !.slept = now' - now]
    /\ UNCHANGED <<autonomy_state, pause_result, pause_test, calls, op,
                   wdVars, session_health, state_file>>

\* lines 370-378: a new SessionHealth, then await watchdog.start()
StartSession ==
    /\ loop.pc = "start_session"
    /\ session_health' = NewSessionHealth
    /\ WatchdogStart
    /\ loop' = [loop EXCEPT !.pc = "construct",
                            !.session_start = now,
                            !.status = "none",
                            !.response = {},
                            !.events = 0,
                            !.raised = "none",
                            !.given = Append(@, "none"),
                            !.last_event = now,
                            !.started_degraded = autonomy_state.degraded_mode,
                            !.sessions = @ + 1]
    /\ UNCHANGED <<asVars, state_file>>

\* mutant: the handler leaves status as it was
ExceptKeepsStatus(l, text) == [l EXCEPT !.response = text]

\* lines 413-416: status = "error", response = str(e)
ExceptStatus(l, text) == [l EXCEPT !.status = "error", !.response = text]

\* lines 413-426: "except Exception as e", then on to the finally clause;
\* `at` is where the exception came from
ExceptHandler(l, text, at) ==
    /\ loop' = [ExceptStatus(l, text) EXCEPT
                    !.pc = "finally",
                    !.raised = at,
                    !.break = (classify_error(text) = "AUTH")]
    /\ session_health' = record_error(session_health, classify_error(text))
    /\ autonomy_state' =
          IF classify_error(text) = "LINEAR_API"
          THEN enter_degraded_mode(autonomy_state)
          ELSE autonomy_state

\* lines 385-395: the base prompt of the session and the flags it consumes
SelectPrompt(l) ==
    IF l.add_spec THEN [l EXCEPT !.base_prompt = "add_spec", !.add_spec = FALSE]
    ELSE IF l.add_features
    THEN [l EXCEPT !.base_prompt = "add_features", !.add_features = FALSE]
    ELSE IF l.is_first_run
    THEN [l EXCEPT !.base_prompt = "initializer", !.is_first_run = FALSE]
    ELSE [l EXCEPT !.base_prompt = "coding"]

\* mutant: the task description never carries the degraded-mode notice
PromptWithoutNotice(base_prompt, st) ==
    [base_prompt |-> base_prompt,
     autonomy_context |-> st.total_sessions > 0,
     degraded_notice |-> FALSE]

\* build_enhanced_prompt(base_prompt, autonomy_state, project_dir): the base
\* prompt and the sections added for the state; the section on pending
\* operations depends on .linear_pending.json alone
build_enhanced_prompt(base_prompt, st) ==
    [base_prompt |-> base_prompt,
     autonomy_context |-> st.total_sessions > 0,
     degraded_notice |-> st.degraded_mode]

\* lines 382-401: the client is created, the prompt chosen and enhanced, the
\* client entered
ConstructSession ==
    /\ loop.pc = "construct"
    /\ loop' = [SelectPrompt(loop) EXCEPT
                    !.pc = "session",
                    !.given[Len(loop.given)] = SelectPrompt(loop).base_prompt,
                    !.enhanced_prompt =
                        build_enhanced_prompt(SelectPrompt(loop).base_prompt,
                                              autonomy_state)]
    /\ UNCHANGED <<asVars, wdVars, session_health, state_file>>

\* create_client (line 382) raises, before a prompt is chosen
CreateClientRaises(text) ==
    /\ loop.pc = "construct"
    /\ ExceptHandler(loop, text, "create")
    /\ UNCHANGED <<now, pause_result, pause_test, calls, op, wdVars, state_file>>

\* build_enhanced_prompt or the entry of "async with client" (lines 398-401)
\* raises, after the prompt was chosen
EnterClientRaises(text) ==
    /\ loop.pc = "construct"
    /\ ExceptHandler(SelectPrompt(loop), text, "enter")
    /\ UNCHANGED <<now, pause_result, pause_test, calls, op, wdVars, state_file>>

\* run_agent_session, lines 84-90: a message arrives, one of at most
\* max_events in the session
EventStep(max_events) ==
    /\ loop.pc = "session"
    /\ loop.events < max_events
    /\ wpc = "idle"
    /\ watchdog' = pet(watchdog, now)
    /\ session_health' = record_activity(session_health)
    /\ loop' = [loop EXCEPT !.events = @ + 1, !.last_event = now]
    /\ UNCHANGED <<asVars, tasks, wpc, fires, last_fire, stopped, state_file>>

SessionEvent == EventStep(MaxEvents)

\* run_agent_session, line 133: the stream ends
SessionReturns ==
    /\ loop.pc = "session"
    /\ loop' = [loop EXCEPT !.status = "continue", !.pc = "client_exit"]
    /\ UNCHANGED <<asVars, wdVars, session_health, state_file>>

\* run_agent_session, lines 135-141: an exception inside the session is
\* classified, recorded and returned as ("error", str(e))
SessionRaises(text) ==
    /\ loop.pc = "session"
    /\ session_health' = record_error(session_health, classify_error(text))
    /\ loop' = [loop EXCEPT !.status = "error",
                            !.response = text,
                            !.raised = "session",
                            !.pc = "client_exit"]
    /\ UNCHANGED <<asVars, wdVars, state_file>>

\* mutant: no deadline ends the session call
SessionNoDeadline ==
    /\ loop.pc = "session"
    /\ FALSE
    /\ UNCHANGED vars

\* mutant: the session is cut off whatever the clock shows
SessionCutOff ==
    /\ loop.pc = "session"
    /\ loop' = [loop EXCEPT !.status = "timeout", !.pc = "client_exit"]
    /\ UNCHANGED <<asVars, wdVars, session_health, state_file>>

\* lines 403-411: asyncio.wait_for gives up after MAX_SESSION_DURATION_SECONDS
SessionTimeout ==
    /\ loop.pc = "session"
    /\ now >= loop.session_start + MAX_SESSION_DURATION_SECONDS
    /\ loop' = [loop EXCEPT !.status = "timeout", !.pc = "client_exit"]
    /\ UNCHANGED <<asVars, wdVars, session_health, state_file>>

\* the clock moves while the session runs
SessionTick(d) ==
    /\ loop.pc = "session"
    /\ now < loop.session_start + MAX_SESSION_DURATION_SECONDS
    /\ Tick(d)
    /\ UNCHANGED <<autonomy_state, pause_result, pause_test, calls, op, loopVars>>

\* the exit of "async with client" (line 401)
ClientExit ==
    /\ loop.pc = "client_exit"
    /\ loop' = [loop EXCEPT !.pc = "finally"]
    /\ UNCHANGED <<asVars, wdVars, session_health, state_file>>

\* the exit of "async with client" raises
ClientExitRaises(text) ==
    /\ loop.pc = "client_exit"
    /\ ExceptHandler(loop, text, "exit")
    /\ UNCHANGED <<now, pause_result, pause_test, calls, op, wdVars, state_file>>

\* mutant: the finally clause leaves the watchdog as it is
FinallySkipsStop ==
    /\ loop.pc = "finally"
    /\ loop' = [loop EXCEPT !.pc = "stopping"]
    /\ UNCHANGED <<asVars, wdVars, session_health, state_file>>

\* lines 428-430: finally: await watchdog.stop()
FinallyStop ==
    /\ loop.pc = "finally"
    /\ WatchdogStopBegin
    /\ loop' = [loop EXCEPT !.pc = "stopping"]
    /\ UNCHANGED <<asVars, session_health, state_file>>

\* watchdog.stop() has returned: the break of line 424 leaves the loop,
\* otherwise the iteration goes on after the try statement
AfterFinally ==
    /\ loop.pc = "stopping"
    /\ \/ wpc = "idle" /\ UNCHANGED wdVars
       \/ WatchdogStopReturn
    /\ loop' = IF loop.cancelling
               THEN [loop EXCEPT !.pc = "done", !.exit_reason = "cancelled"]
               ELSE IF loop.break
               THEN [loop EXCEPT !.pc = "done", !.exit_reason = "auth"]
               ELSE [loop EXCEPT !.pc = "record"]
    /\ UNCHANGED <<asVars, session_health, state_file>>

\* the sleep that ends the iteration (lines 463-481); AUTO_CONTINUE_DELAY is 0
EndDelay(status) ==
    IF status = "timeout" THEN TimeoutDelaySeconds
    ELSE IF status = "error" THEN ErrorDelaySeconds
    ELSE 0

\* dict.get(key, default)
Get(dict, key, default) == IF key \in DOMAIN dict THEN dict[key] ELSE default

\* Python's truth value of a dict
Truthy(dict) == DOMAIN dict # {}

\* .linear_project.json as the completion check may find it: <<>> is a
\* missing or unreadable file, <<d>> a file that holds the dict d
ProjectFiles ==
    {<<>>,
     <<[initialized |-> TRUE, total_issues |-> 2]>>,
     <<[initialized |-> TRUE, total_issues |-> 2,
        cached_counts |-> [done |-> 2, in_progress |-> 0, todo |-> 0]]>>,
     <<[initialized |-> TRUE, total_issues |-> 2,
        cached_counts |-> [done |-> 1, in_progress |-> 1, todo |-> 0]]>>,
     <<[initialized |-> TRUE,
        cached_counts |-> [in_progress |-> 0, todo |-> 0]]>>}

\* progress.load_linear_project_state: None is <<>>
load_linear_project_state(file) == file

\* progress.check_completion_status on the project file
check_completion_status(file) ==
    LET state == load_linear_project_state(file) IN
    IF state = <<>> \/ ~Truthy(state[1]) THEN FALSE
    ELSE IF ~Truthy(Get(state[1], "cached_counts", <<>>)) THEN FALSE
    ELSE LET total == Get(state[1], "total_issues", 0)
             done == Get(state[1].cached_counts, "done", 0)
         IN  done = total /\ total > 0

\* mutant: the completion check is made whatever the outcome was
ChecksWhateverOutcome(l) == ~l.no_auto_stop

\* line 450: "if not no_auto_stop and status == 'continue'"
ChecksCompletion(l) == ~l.no_auto_stop /\ l.status = "continue"

\* lines 441-481: the result is recorded and saved, the completion check may
\* end the run, and the iteration ends with its sleep.  project is
\* .linear_project.json as the session left it, read only by the check of
\* line 451.
RecordAndContinue(project) ==
    /\ loop.pc = "record"
    /\ ~ChecksCompletion(loop) => project = <<>>
    /\ autonomy_state' =
          record_session_result(autonomy_state, loop.status = "continue",
                                session_health)
    /\ calls' = Append(calls, Summary(loop.status = "continue", session_health))
    /\ state_file' = save_autonomy_state(autonomy_state')
    /\ IF ChecksCompletion(loop) /\ check_completion_status(project)
       THEN /\ loop' = [loop EXCEPT !.pc = "done",
                                    !.exit_reason = "complete",
                                    !.checked = project]
            /\ UNCHANGED now
       ELSE /\ loop' = [loop EXCEPT !.pc = "loop_head", !.checked = project]
            /\ now' = now + EndDelay(loop.status)
    /\ UNCHANGED <<pause_result, pause_test, op, wdVars, session_health>>

Next ==
    \/ /\ \/ loop.iteration < MaxIterations
          \/ CapReached(loop.max_iterations, loop.iteration + 1)
       /\ \E d \in ClockSteps : LoopHead(0, d)
       /\ UNCHANGED call
    \/ (\E late \in ClockSteps : PauseSleep(late)) /\ UNCHANGED call
    \/ StartSession /\ UNCHANGED call
    \/ ConstructSession /\ UNCHANGED call
    \/ (\E text \in ErrorTexts : CreateClientRaises(text)) /\ UNCHANGED call
    \/ (\E text \in ErrorTexts : EnterClientRaises(text)) /\ UNCHANGED call
    \/ SessionEvent /\ UNCHANGED call
    \/ SessionReturns /\ UNCHANGED call
    \/ (\E text \in ErrorTexts : SessionRaises(text)) /\ UNCHANGED call
    \/ SessionTimeout /\ UNCHANGED call
    \/ (\E d \in SessionTicks : SessionTick(d)) /\ UNCHANGED call
    \/ ClientExit /\ UNCHANGED call
    \/ (\E text \in ErrorTexts : ClientExitRaises(text)) /\ UNCHANGED call
    \/ FinallyStop /\ UNCHANGED call
    \/ AfterFinally /\ UNCHANGED call
    \/ (\E project \in ProjectFiles : RecordAndContinue(project))
           /\ UNCHANGED call
    \/ /\ loop.pc \in {"construct", "session", "client_exit", "finally", "stopping"}
       /\ \E i \in 1..Len(tasks) : MonitorCancelled(i)
       /\ UNCHANGED <<asVars, loopVars, call>>
    \/ /\ loop.pc \in {"construct", "session", "client_exit", "finally", "stopping"}
       /\ \E i \in 1..Len(tasks) : MonitorPoll(i)
       /\ UNCHANGED <<asVars, loopVars, call>>

Spec == Init /\ [][Next]_vars

-----------------------------------------------------------------------------
(* Properties of the session loop *)

\* the failure of this iteration classifies as AUTH
AuthFailure ==
    loop.status = "error" /\ classify_error(loop.response) = "AUTH"

\* C1: a session whose outcome is error with a failure text that classifies
\* as AUTH stops the loop: the iteration goes through the finally clause to
\* DONE and neither records the session nor starts another one, whether the
\* failure was raised while the session was constructed or while it ran.
C1_AuthStopsLoop ==
    AuthFailure => loop.pc \in {"client_exit", "finally", "stopping", "done"}

\* C2: an exception raised in an iteration (creating the client, choosing
\* the prompt, running the session, leaving the client) makes the outcome
\* error; the iteration then goes on to be recorded and to the next head of
\* the loop unless the failure is AUTH, and the loop ends after an exception
\* only for AUTH or for the iteration cap.
C2_ExceptionsAbsorbed ==
    /\ [](loop.raised # "none" => loop.status = "error")
    /\ [](loop.raised # "none" /\ loop.pc = "done" =>
             \/ loop.exit_reason = "max_iterations"
             \/ loop.exit_reason = "auth" /\ AuthFailure)
    /\ [][loop.raised # "none" /\ loop.pc = "stopping" /\ ~AuthFailure
             => loop'.pc \in {"stopping", "record"}]_vars
    /\ [][loop.raised # "none" /\ loop.pc = "record"
             => loop'.pc \in {"record", "loop_head"}]_vars

\* the loop is at the head of its second iteration after the client's exit
\* raised an error that is not AUTH
C2_Witness ==
    /\ loop.pc = "loop_head"
    /\ loop.iteration = 1
    /\ loop.raised = "exit"
    /\ loop.status = "error"
    /\ classify_error(loop.response) = "UNKNOWN"
    /\ autonomy_state.consecutive_errors = 1

\* C3: every session of the loop, also one that ends the run, is recorded
\* exactly once with success = (outcome is continue) and then saved, so
\* between iterations total_sessions in memory and in the state file is the
\* loaded value plus the number of sessions run.
C3_EverySessionRecorded ==
    loop.pc \in {"loop_head", "done"} =>
        /\ autonomy_state.total_sessions = loop.loaded_sessions + loop.sessions
        /\ Len(calls) = loop.sessions
        /\ loop.sessions > 0 =>
              /\ calls[Len(calls)].success = (loop.status = "continue")
              /\ state_file # <<>>
              /\ state_file[1].total_sessions = autonomy_state.total_sessions

\* what holds of the code: the same for every run that did not end on AUTH
C3_RecordedUnlessAuth ==
    loop.exit_reason # "auth" => C3_EverySessionRecorded

\* C7: every iteration calls should_pause() before its session, sleeps the
\* returned duration when the answer is (true, d), and no session starts
\* while pause_until is in the future.
C7_PauseBeforeSession ==
    loop.pc \in {"start_session", "construct", "session"} =>
        /\ loop.pause_checked = loop.iteration
        /\ pause_result[1] => loop.slept >= pause_result[2]
        /\ \/ autonomy_state.pause_until = None
           \/ now >= autonomy_state.pause_until[1]

\* a session starts at the very end of a 30 s pause
C7_Witness ==
    /\ loop.pc = "construct"
    /\ pause_result = <<TRUE, 30>>
    /\ loop.slept = 30
    /\ autonomy_state.pause_until = <<now>>

\* the failure of the last session classifies as LINEAR_API
LinearFailure ==
    loop.status = "error" /\ classify_error(loop.response) = "LINEAR_API"

\* C21: when a session's outcome is error and its failure text classifies as
\* LINEAR_API, degraded_mode is true before the next session's task is
\* built, whether the failure was raised while the session was constructed
\* or while it ran.
C21_LinearFailureDegrades ==
    LinearFailure /\ loop.pc \in {"loop_head", "pause_sleep", "start_session"}
        => autonomy_state.degraded_mode

\* what holds of the code: the same for the failures that the except clause
\* of the loop handles, which are not those of a running session
C21_DegradesUnlessInSession ==
    LinearFailure /\ loop.pc \in {"loop_head", "pause_sleep", "start_session"}
                  /\ loop.raised # "session"
        => autonomy_state.degraded_mode

\* C23: the loop stops for completion only after a session whose outcome is
\* continue, with auto-stop enabled, when the project file the check read
\* has cached counts with done equal to total_issues and total_issues > 0;
\* after an error or timeout outcome, or with auto-stop disabled, it never
\* stops for completion.
C23_CompletionStop ==
    loop.exit_reason = "complete" =>
        /\ loop.pc = "done"
        /\ loop.status = "continue"
        /\ ~loop.no_auto_stop
        /\ loop.checked # <<>>
        /\ "cached_counts" \in DOMAIN loop.checked[1]
        /\ "total_issues" \in DOMAIN loop.checked[1]
        /\ loop.checked[1].cached_counts.done = loop.checked[1].total_issues
        /\ loop.checked[1].total_issues > 0

\* the run ended because its first session left every issue done
C23_Witness ==
    /\ loop.pc = "done"
    /\ loop.exit_reason = "complete"
    /\ loop.sessions = 1
    /\ loop.checked[1].cached_counts.done = 2

-----------------------------------------------------------------------------
(* SpecModes: the session loop in runs that begin with a one-shot task,     *)
(* on a new project, or with an iteration cap of 0 or 1                     *)

\* a run that adds a spec to a project whose last session failed, with
\* --max-iterations 0; a run that adds features to a project whose last
\* five sessions failed, capped at one iteration; a first run on a new
\* project, without a cap
ModeRuns ==
    {[state_file |-> save_autonomy_state(AfterFailures(1)),
      max_iterations |-> <<0>>, add_spec |-> TRUE, add_features |-> FALSE,
      no_auto_stop |-> FALSE, is_first_run |-> FALSE],
     [state_file |-> save_autonomy_state(AfterFailures(5)),
      max_iterations |-> <<1>>, add_spec |-> FALSE, add_features |-> TRUE,
      no_auto_stop |-> TRUE, is_first_run |-> FALSE],
     [state_file |-> <<>>,
      max_iterations |-> None, add_spec |-> FALSE, add_features |-> FALSE,
      no_auto_stop |-> FALSE, is_first_run |-> TRUE]}

InitModes == InitRun(ModeRuns)

SpecModes == InitModes /\ [][Next]_vars

\* C22: when an iteration cap N is configured, N >= 0, the loop starts at
\* most N sessions.
C22_CapBoundsSessions ==
    loop.max_iterations # None => loop.sessions <= loop.max_iterations[1]

\* what holds of the code: the same for every cap other than 0
C22_PositiveCapBoundsSessions ==
    loop.max_iterations # None /\ loop.max_iterations # <<0>>
        => loop.sessions <= loop.max_iterations[1]

\* the sessions of the run that were sent a task
Sent == {i \in 1..Len(loop.given) : loop.given[i] # "none"}

\* C24: in a run that begins with a special task (add-spec, add-features, or
\* initialization on a fresh start) the first session that is sent a task
\* is sent the special one and every later session the standard work task.
C24_SpecialTaskOnce ==
    \A j \in Sent :
        loop.given[j] = IF \A i \in Sent : i >= j THEN loop.mode ELSE "coding"

\* what holds of the code: the special task is sent to no session but the
\* first one that is sent a task, and every other session is sent the
\* standard work task
C24_SpecialTaskAtMostOnce ==
    \A j \in Sent :
        \/ loop.given[j] = "coding"
        \/ loop.given[j] = loop.mode /\ \A i \in Sent : i >= j

-----------------------------------------------------------------------------
(* SpecCancel: the session loop under one operator interrupt.  asyncio.run  *)
(* answers SIGINT by cancelling the main task, which gets a CancelledError  *)
(* at the await it is suspended in.                                         *)

\* the interrupt finds the loop in a sleep outside the try statement: the
\* adaptive pause (line 368) or the sleep that ends an iteration (lines 475
\* and 481, after which the loop is at its head).  Nothing catches the
\* CancelledError.
InterruptSleep ==
    /\ ~loop.interrupted
    /\ \/ loop.pc = "pause_sleep"
       \/ loop.pc = "loop_head" /\ loop.status \in {"error", "timeout"}
    /\ loop' = [loop EXCEPT !.pc = "done",
                            !.exit_reason = "cancelled",
                            !.cancelling = TRUE,
                            !.interrupted = TRUE]
    /\ UNCHANGED <<asVars, wdVars, session_health, state_file>>

\* the interrupt finds the loop inside the try statement, entering the
\* client (line 401), waiting for the session (403) or leaving the client:
\* "except Exception" does not catch CancelledError and the finally clause
\* runs
InterruptInTry ==
    /\ ~loop.interrupted
    /\ loop.pc \in {"construct", "session", "client_exit"}
    /\ loop' = [(IF loop.pc = "construct" THEN SelectPrompt(loop) ELSE loop)
                    EXCEPT !.pc = "finally",
                           !.cancelling = TRUE,
                           !.interrupted = TRUE]
    /\ UNCHANGED <<asVars, wdVars, session_health, state_file>>

\* the interrupt finds the loop in watchdog.stop(), at "await self._task"
\* (autonomy.py line 306): the CancelledError meant for the loop is caught by
\* stop()'s "except asyncio.CancelledError: pass" and the loop goes on
InterruptStopAwait ==
    /\ ~loop.interrupted
    /\ loop.pc = "stopping"
    /\ wpc = "stop_await"
    /\ loop' = [loop EXCEPT !.interrupted = TRUE]
    /\ UNCHANGED <<asVars, wdVars, session_health, state_file>>

NextCancel ==
    \/ Next
    \/ InterruptSleep /\ UNCHANGED call
    \/ InterruptInTry /\ UNCHANGED call
    \/ InterruptStopAwait /\ UNCHANGED call

\* the interrupted runs: those of Runs that have an iteration cap
CancelRuns == {run \in Runs : run.max_iterations # None}

InitCancel == InitRun(CancelRuns)

SpecCancel == InitCancel /\ [][NextCancel]_vars

\* C27: if the run is cancelled at any point of an iteration, the watchdog
\* is stopped before the loop exits and the state file is not written after
\* the cancellation has begun.
C27_CancelStopsCleanly ==
    /\ [](loop.pc = "done" /\ loop.interrupted => ~watchdog.running)
    /\ [][loop.interrupted => state_file' = state_file]_vars

\* what holds of the code: the watchdog is stopped when an interrupted run
\* ends, and the state file is not written once a CancelledError is on its
\* way out of the loop
C27_StoppedAndNoWriteWhileCancelling ==
    /\ [](loop.pc = "done" /\ loop.interrupted => ~watchdog.running)
    /\ [][loop.cancelling => state_file' = state_file]_vars

-----------------------------------------------------------------------------
(* SpecHealth: one SessionHealth that records activity and errors while    *)
(* the clock runs, and calls of is_healthy on it                           *)

MaxHealthEvents == 4
MaxHealthClock == 6
\* the idle limits asked about
IdleLimits == {0, 2, 300}

\* SessionHealth() at clock t, with the time of its last activity
SessionHealthAt(t) ==
    [tool_calls |-> 0, errors |-> 0, issues_worked |-> 0, last_activity |-> t]

\* SessionHealth.record_activity at clock t
RecordActivityAt(health, t) ==
    [record_activity(health) EXCEPT !.last_activity = t]

\* SessionHealth.record_error at clock t
RecordErrorAt(health, category, t) ==
    [record_error(health, category) EXCEPT !.last_activity = t]

\* mutant: the error rate is taken without looking at tool_calls
ErrorRateHighUnguarded(health) == 2 * health.errors > health.tool_calls

\* "self.tool_calls > 0 and (self.errors / self.tool_calls) > 0.5"
ErrorRateHigh(health) ==
    health.tool_calls > 0 /\ 2 * health.errors > health.tool_calls

\* SessionHealth.is_healthy(max_idle_seconds) at clock t
is_healthy(health, max_idle_seconds, t) ==
    LET idle_time == t - health.last_activity IN
    IF idle_time > max_idle_seconds THEN FALSE
    ELSE IF ErrorRateHigh(health) THEN FALSE
    ELSE TRUE

InitHealth ==
    /\ WatchIdle
    /\ LoopIdle
    /\ now = 0
    /\ autonomy_state = NewAutonomyState
    /\ pause_result = <<FALSE, 0>>
    /\ pause_test = 0
    /\ calls = <<>>
    /\ op = "init"
    /\ call = [fn |-> "is_healthy",
               health |-> SessionHealthAt(0),
               max_idle_seconds |-> 0,
               at |-> 0,
               result |-> TRUE,
               returned |-> FALSE]

HealthActivity ==
    /\ call.health.tool_calls + call.health.errors < MaxHealthEvents
    /\ call' = [call EXCEPT !.health = RecordActivityAt(@, now),
                            !.returned = FALSE]
    /\ UNCHANGED <<asVars, wdVars, loopVars>>

HealthError(category) ==
    /\ call.health.tool_calls + call.health.errors < MaxHealthEvents
    /\ call' = [call EXCEPT !.health = RecordErrorAt(@, category, now),
                            !.returned = FALSE]
    /\ UNCHANGED <<asVars, wdVars, loopVars>>

HealthTick ==
    /\ now < MaxHealthClock
    /\ now' = now + 1
    /\ call' = [call EXCEPT !.returned = FALSE]
    /\ UNCHANGED <<autonomy_state, pause_result, pause_test, calls, op,
                   wdVars, loopVars>>

IsHealthy(max_idle_seconds) ==
    /\ call' = [call EXCEPT
                    !.max_idle_seconds = max_idle_seconds,
                    !.at = now,
                    !.result = is_healthy(call.health, max_idle_seconds, now),
                    !.returned = TRUE]
    /\ UNCHANGED <<asVars, wdVars, loopVars>>

NextHealth ==
    \/ HealthActivity
    \/ \E category \in {"LINEAR_API", "UNKNOWN"} : HealthError(category)
    \/ HealthTick
    \/ \E max_idle_seconds \in IdleLimits : IsHealthy(max_idle_seconds)

SpecHealth == InitHealth /\ [][NextHealth]_vars

\* C25: is_healthy(max_idle_seconds) returns false exactly when the time
\* since the last activity exceeds max_idle_seconds, or tool_calls >= 1 and
\* errors / tool_calls > 1/2; it returns true otherwise, in particular for
\* any number of errors when tool_calls is 0.
C25_HealthyPredicate ==
    call.returned =>
        /\ call.result =
              ~(\/ call.at - call.health.last_activity > call.max_idle_seconds
                \/ /\ call.health.tool_calls >= 1
                   /\ 2 * call.health.errors > call.health.tool_calls)
        /\ call.health.tool_calls = 0
              /\ call.at - call.health.last_activity <= call.max_idle_seconds
              => call.result

\* a session with two errors and no tool call, idle within the limit, is
\* reported healthy
C25_Witness ==
    /\ call.returned
    /\ call.result
    /\ call.health.tool_calls = 0
    /\ call.health.errors = 2
    /\ call.at - call.health.last_activity = 2
    /\ call.max_idle_seconds = 2

-----------------------------------------------------------------------------
(* SpecStale: StaleIssueDetector.is_stale on the updatedAt value of an     *)
(* issue, at a clock that runs in half hours                               *)

STALE_THRESHOLD_HOURS == 2
SecondsPerHour == 3600
StaleTickSeconds == 1800
MaxStaleTicks == 6

\* the values passed as issue_updated_at: a missing value (None), text that
\* is no ISO timestamp, and ISO timestamps without and with a UTC offset,
\* written "...Z" or "...+00:00"
StaleInputs ==
    {[type |-> "NoneType", text |-> "none", at |-> 0]}
    \cup {[type |-> "str", text |-> t, at |-> 0] : t \in {"empty", "garbage"}}
    \cup {[type |-> "str", text |-> t, at |-> k * StaleTickSeconds] :
             t \in {"naive", "Z", "+00:00"}, k \in 0..2}

\* datetime.fromisoformat accepts the text
ParsesAsTimestamp(value) == value.text \in {"naive", "Z", "+00:00"}

\* "age > timedelta(hours=STALE_THRESHOLD_HOURS)"
OlderThanThreshold(value, t) ==
    t - value.at > STALE_THRESHOLD_HOURS * SecondsPerHour

\* StaleIssueDetector.is_stale(issue_updated_at) at clock t: what it raises
\* and what it returns.  issue_updated_at.replace is outside what
\* "except (ValueError, TypeError)" catches when the value has no replace.
is_stale(value, t) ==
    IF value.type # "str"
    THEN [raises |-> "AttributeError", result |-> FALSE]
    ELSE IF ~ParsesAsTimestamp(value)
    THEN [raises |-> "none", result |-> FALSE]
    ELSE [raises |-> "none", result |-> OlderThanThreshold(value, t)]

InitStale ==
    /\ WatchIdle
    /\ LoopIdle
    /\ now = 0
    /\ autonomy_state = NewAutonomyState
    /\ pause_result = <<FALSE, 0>>
    /\ pause_test = 0
    /\ calls = <<>>
    /\ op = "init"
    /\ \E value \in StaleInputs :
          call = [fn |-> "is_stale", value |-> value, pc |-> "called",
                  raises |-> "none", result |-> FALSE]

StaleTick ==
    /\ call.pc = "called"
    /\ now < MaxStaleTicks * StaleTickSeconds
    /\ now' = now + StaleTickSeconds
    /\ UNCHANGED <<autonomy_state, pause_result, pause_test, calls, op,
                   wdVars, loopVars, call>>

IsStale ==
    /\ call.pc = "called"
    /\ call' = [call EXCEPT
                    !.pc = "returned",
                    !.raises = is_stale(call.value, now).raises,
                    !.result = is_stale(call.value, now).result]
    /\ UNCHANGED <<asVars, wdVars, loopVars>>

NextStale ==
    \/ StaleTick
    \/ IsStale

SpecStale == InitStale /\ [][NextStale]_vars

\* C26: is_stale(ts) returns true exactly when ts parses as a timestamp and
\* now minus ts is more than 2 hours; for a value that cannot be parsed,
\* malformed text or a missing value, it returns false, and it never raises.
C26_StaleOrFailOpen ==
    call.pc = "returned" =>
        /\ call.raises = "none"
        /\ call.result = (/\ call.value.text \in {"naive", "Z", "+00:00"}
                          /\ now - call.value.at > 7200)

\* what holds of the code: the same for every value that is a string
C26_StaleOrFailOpenForText ==
    call.pc = "returned" /\ call.value.type = "str" =>
        /\ call.raises = "none"
        /\ call.result = (/\ call.value.text \in {"naive", "Z", "+00:00"}
                          /\ now - call.value.at > 7200)

-----------------------------------------------------------------------------
(* SpecCache: the issue cache file, its writers, and the two validity       *)
(* checks, progress.is_cache_valid and linear_client.is_cache_valid with    *)
(* get_issues_for_session.  now is the UTC clock in seconds; the machine's  *)
(* local clock shows now + utc_offset.                                      *)

DEFAULT_CACHE_TTL_SECONDS == 180
CacheTickSeconds == 60
MaxCacheTicks == 4

\* the local time zones explored: UTC, one hour east, one hour west
UtcOffsets == {0, 3600, 0 - 3600}
\* the ttl_seconds a cache file may carry (<<>>: the key is absent)
CacheTtls == {<<>>, <<60>>}
\* max_age_seconds as passed to progress.is_cache_valid (<<>>: None)
MaxAges == {<<>>, <<0>>, <<30>>, <<120>>}
ProjectIds == {"p", "q"}

Max(a, b) == IF a >= b THEN a ELSE b

\* datetime.utcnow().isoformat() + "Z" at UTC clock t: the wall-clock fields
\* of UTC and a suffix
utc_isoformat_z(t) == [wall |-> t, suffix |-> "Z"]

\* datetime.now().isoformat() at UTC clock t on a machine at `offset`: the
\* wall-clock fields of local time, no suffix
local_isoformat(t, offset) == [wall |-> t + offset, suffix |-> ""]

\* text that datetime.fromisoformat rejects
GarbageStamp == [wall |-> 0, suffix |-> "garbage"]

\* fromisoformat(text.replace("Z", "+00:00")) and then
\* replace(tzinfo=None): the wall-clock fields as written, whatever the
\* suffix said
ParseNaive(stamp) == stamp.wall

\* the cache file a writer leaves: one JSON dict
CacheDict(project_id, stamp, ttl) ==
    IF ttl = <<>>
    THEN [cache_version |-> 1, project_id |-> project_id, cached_at |-> stamp,
          invalidated_at |-> <<>>, issues |-> "issues"]
    ELSE [cache_version |-> 1, project_id |-> project_id, cached_at |-> stamp,
          invalidated_at |-> <<>>, issues |-> "issues", ttl_seconds |-> ttl[1]]

\* a file: <<>> when missing, else <<[json, dict]>>, json telling whether
\* json.load accepts the bytes
JsonFile(dict) == <<[json |-> TRUE, dict |-> dict]>>
CorruptFile == <<[json |-> FALSE, dict |-> [cache_version |-> 1]]>>

\* progress.load_issue_cache: <<>> is None
RequiredFields == {"cache_version", "project_id", "cached_at", "issues"}
load_issue_cache(file) ==
    IF file = <<>> THEN <<>>
    ELSE IF ~file[1].json THEN <<>>
    ELSE IF ~(RequiredFields \subseteq DOMAIN file[1].dict) THEN <<>>
    ELSE <<file[1].dict>>

\* progress.get_cache_age_seconds at UTC clock t: <<>> is None
get_cache_age_seconds(file, t, offset) ==
    LET cache == load_issue_cache(file) IN
    IF cache = <<>> THEN <<>>
    ELSE IF cache[1].cached_at.suffix = "garbage" THEN <<>>
    ELSE <<Max(0, (t + offset) - ParseNaive(cache[1].cached_at))>>

\* "max_age_seconds or cache.get('ttl_seconds') or DEFAULT_CACHE_TTL_SECONDS"
\* where 0 and None are falsy
OrTtl(max_age_seconds, cache) ==
    IF max_age_seconds # <<>> /\ max_age_seconds[1] # 0
    THEN max_age_seconds[1]
    ELSE IF Get(cache, "ttl_seconds", 0) # 0 THEN cache.ttl_seconds
    ELSE DEFAULT_CACHE_TTL_SECONDS

\* the project file of progress.is_cache_valid / load_project_state
ProjectFile(project_id) == <<[initialized |-> TRUE, project_id |-> project_id]>>

\* progress.is_cache_valid(project_dir, max_age_seconds) at UTC clock t
is_cache_valid(file, project, max_age_seconds, t, offset) ==
    LET cache == load_issue_cache(file)
        age == get_cache_age_seconds(file, t, offset)
    IN  IF cache = <<>>
        THEN [valid |-> FALSE, reason |-> "Cache missing or corrupted"]
        ELSE IF Get(cache[1], "invalidated_at", <<>>) # <<>>
        THEN [valid |-> FALSE, reason |-> "Cache explicitly invalidated"]
        ELSE IF age = <<>>
        THEN [valid |-> FALSE, reason |-> "Cannot determine cache age"]
        ELSE IF age[1] > OrTtl(max_age_seconds, cache[1])
        THEN [valid |-> FALSE, reason |-> "Cache expired"]
        ELSE IF /\ project # <<>>
                /\ "project_id" \in DOMAIN project[1]
                /\ cache[1].project_id # project[1].project_id
        THEN [valid |-> FALSE, reason |-> "Cache is for different project"]
        ELSE [valid |-> TRUE, reason |-> "Cache valid"]

\* linear_client.load_cache: any JSON the file holds; <<>> is None
load_cache(file) ==
    IF file = <<>> THEN <<>>
    ELSE IF ~file[1].json THEN <<>>
    ELSE <<file[1].dict>>

\* linear_client.is_cache_valid(cache, project_id, max_age) at UTC clock t
client_is_cache_valid(cache, project_id, max_age, t, offset) ==
    IF ~Truthy(cache) THEN FALSE
    ELSE IF Get(cache, "invalidated_at", <<>>) # <<>> THEN FALSE
    ELSE IF Get(cache, "project_id", "") # project_id THEN FALSE
    ELSE IF "cached_at" \notin DOMAIN cache THEN FALSE
    ELSE IF cache.cached_at.suffix = "garbage" THEN FALSE
    ELSE (t + offset) - ParseNaive(cache.cached_at) <= max_age

\* the cache dict with the keys get_issues_for_session adds to what it
\* returns (_cache_age is left out)
FromCache(cache) ==
    [k \in DOMAIN cache \cup {"_from_cache"} |->
        IF k = "_from_cache" THEN TRUE ELSE cache[k]]
StaleFromCache(cache) ==
    [k \in DOMAIN cache \cup {"_from_cache", "_stale"} |->
        IF k \in {"_from_cache", "_stale"} THEN TRUE ELSE cache[k]]

\* linear_client.get_issues_for_session(project_dir, force_refresh,
\* cache_ttl) at UTC clock t.  api is what get_api_key and
\* fetch_issues_from_api do if they are called: "ok" or "LinearClientError".
\* The result is what is returned (<<>>: None), whether the API was called,
\* and the cache file afterwards.
get_issues_for_session(file, project, force_refresh, cache_ttl, api, t, offset) ==
    LET cache == load_cache(file)
        fresh == CacheDict(project[1].project_id, utc_isoformat_z(t),
                           <<cache_ttl>>)
    IN  IF project = <<>> \/ "project_id" \notin DOMAIN project[1]
        THEN [value |-> <<>>, api_called |-> FALSE, file |-> file]
        ELSE IF /\ ~force_refresh
                /\ cache # <<>>
                /\ client_is_cache_valid(cache[1], project[1].project_id,
                                         cache_ttl, t, offset)
        THEN [value |-> <<FromCache(cache[1])>>, api_called |-> FALSE,
              file |-> file]
        ELSE IF api = "LinearClientError"
        THEN [value |-> IF cache # <<>> /\ Truthy(cache[1])
                        THEN <<StaleFromCache(cache[1])>>
                        ELSE <<>>,
              api_called |-> TRUE, file |-> file]
        ELSE [value |-> <<[k \in DOMAIN fresh \cup {"_from_cache"} |->
                            IF k = "_from_cache" THEN FALSE ELSE fresh[k]]>>,
              api_called |-> TRUE,
              file |-> JsonFile([k \in DOMAIN fresh \cup {"_from_cache"} |->
                            IF k = "_from_cache" THEN FALSE ELSE fresh[k]])]

\* `call` with no call made: the arguments and results are forgotten
NoCacheCall(c) ==
    [c EXCEPT !.fn = "none",
              !.before = <<>>,
              !.at = 0,
              !.max_age_seconds = <<>>,
              !.force_refresh = FALSE,
              !.api = "ok",
              !.valid = [valid |-> FALSE, reason |-> "none"],
              !.issues = [value |-> <<>>, api_called |-> FALSE]]

\* the files, the machine's time zone and the last call are kept in `call`
InitCache ==
    /\ WatchIdle
    /\ LoopIdle
    /\ now = 0
    /\ autonomy_state = NewAutonomyState
    /\ pause_result = <<FALSE, 0>>
    /\ pause_test = 0
    /\ calls = <<>>
    /\ op = "init"
    /\ \E offset \in UtcOffsets,
          project \in {<<>>} \cup {ProjectFile(id) : id \in ProjectIds} :
          call = [fn |-> "none",
                  utc_offset |-> offset,
                  project_file |-> project,
                  cache_file |-> <<>>,
                  \* the cache file when the last call began, its arguments
                  \* and what it returned
                  before |-> <<>>,
                  at |-> 0,
                  max_age_seconds |-> <<>>,
                  force_refresh |-> FALSE,
                  cache_ttl |-> DEFAULT_CACHE_TTL_SECONDS,
                  api |-> "ok",
                  valid |-> [valid |-> FALSE, reason |-> "none"],
                  issues |-> [value |-> <<>>, api_called |-> FALSE]]

\* populate_cache.py writes the cache with a UTC "Z" stamp
PopulateCache(project_id, ttl) ==
    /\ call' = [NoCacheCall(call) EXCEPT
                   !.cache_file =
                       JsonFile(CacheDict(project_id, utc_isoformat_z(now), ttl))]
    /\ UNCHANGED <<asVars, wdVars, loopVars>>

\* a writer that stamps the cache with local time, datetime.now().isoformat(),
\* as the tests of the cache do
WriteCacheLocalStamp(project_id, ttl) ==
    /\ call' = [NoCacheCall(call) EXCEPT
                   !.cache_file =
                       JsonFile(CacheDict(project_id,
                                          local_isoformat(now, call.utc_offset),
                                          ttl))]
    /\ UNCHANGED <<asVars, wdVars, loopVars>>

\* the agent marks the cache invalidated after it changed an issue (the
\* stamp is never read, only whether it is null)
InvalidateCache ==
    /\ load_issue_cache(call.cache_file) # <<>>
    /\ call.cache_file[1].dict.invalidated_at = <<>>
    /\ call' = [NoCacheCall(call) EXCEPT
                   !.cache_file[1].dict.invalidated_at =
                       <<utc_isoformat_z(0)>>]
    /\ UNCHANGED <<asVars, wdVars, loopVars>>

\* the file is left with bytes that are no JSON, with a stamp that is no
\* timestamp, or removed
DamageCache ==
    /\ call.cache_file # <<>>
    /\ \/ call' = [NoCacheCall(call) EXCEPT !.cache_file = CorruptFile]
       \/ /\ load_issue_cache(call.cache_file) # <<>>
          /\ call' = [NoCacheCall(call) EXCEPT
                          !.cache_file[1].dict.cached_at = GarbageStamp]
       \/ call' = [NoCacheCall(call) EXCEPT !.cache_file = <<>>]
    /\ UNCHANGED <<asVars, wdVars, loopVars>>

CacheTick ==
    /\ now < MaxCacheTicks * CacheTickSeconds
    /\ now' = now + CacheTickSeconds
    /\ call' = NoCacheCall(call)
    /\ UNCHANGED <<autonomy_state, pause_result, pause_test, calls, op,
                   wdVars, loopVars>>

IsCacheValid(max_age_seconds) ==
    /\ call' = [NoCacheCall(call) EXCEPT
                   !.fn = "is_cache_valid",
                   !.before = call.cache_file,
                   !.at = now,
                   !.max_age_seconds = max_age_seconds,
                   !.valid = is_cache_valid(call.cache_file, call.project_file,
                                            max_age_seconds, now,
                                            call.utc_offset)]
    /\ UNCHANGED <<asVars, wdVars, loopVars>>

GetIssuesForSession(force_refresh, api) ==
    LET r == get_issues_for_session(call.cache_file, call.project_file,
                                    force_refresh, DEFAULT_CACHE_TTL_SECONDS,
                                    api, now, call.utc_offset)
    IN  /\ call' = [NoCacheCall(call) EXCEPT
                       !.fn = "get_issues_for_session",
                       !.before = call.cache_file,
                       !.at = now,
                       !.force_refresh = force_refresh,
                       !.api = api,
                       !.issues = [value |-> r.value,
                                   api_called |-> r.api_called],
                       !.cache_file = r.file]
        /\ UNCHANGED <<asVars, wdVars, loopVars>>

NextCache ==
    \/ \E id \in ProjectIds, ttl \in CacheTtls : PopulateCache(id, ttl)
    \/ \E id \in ProjectIds, ttl \in CacheTtls : WriteCacheLocalStamp(id, ttl)
    \/ InvalidateCache
    \/ DamageCache
    \/ CacheTick
    \/ \E max_age_seconds \in MaxAges : IsCacheValid(max_age_seconds)
    \/ \E force_refresh \in BOOLEAN, api \in {"ok", "LinearClientError"} :
          GetIssuesForSession(force_refresh, api)

SpecCache == InitCache /\ [][NextCache]_vars

-----------------------------------------------------------------------------
(* Properties of the issue cache *)

\* the UTC instant a stamp names
WrittenAt(stamp, offset) ==
    IF stamp.suffix = "Z" THEN stamp.wall ELSE stamp.wall - offset

\* the cache file of the last call exists, parses and has the required
\* fields
CacheLoads ==
    /\ call.before # <<>>
    /\ call.before[1].json
    /\ RequiredFields \subseteq DOMAIN call.before[1].dict

\* its age when the call was made, for a stamp that is a timestamp
CacheAge ==
    call.at - WrittenAt(call.before[1].dict.cached_at, call.utc_offset)

\* the answer the claim gives for a call without max_age_seconds: the first
\* check that fails, in the order missing/corrupted, invalidated, expired,
\* different project
ExpectedReason ==
    IF ~CacheLoads THEN "Cache missing or corrupted"
    ELSE LET cache == call.before[1].dict
             ttl == IF "ttl_seconds" \in DOMAIN cache
                    THEN cache.ttl_seconds ELSE DEFAULT_CACHE_TTL_SECONDS
         IN  IF cache.invalidated_at # <<>> THEN "Cache explicitly invalidated"
             ELSE IF cache.cached_at.suffix = "garbage" THEN "Cache expired"
             ELSE IF CacheAge > ttl THEN "Cache expired"
             ELSE IF /\ call.project_file # <<>>
                     /\ cache.project_id # call.project_file[1].project_id
             THEN "Cache is for different project"
             ELSE "Cache valid"

\* the answer of the call is the expected one; for a stamp that is no
\* timestamp the code's own wording of the failed age check is accepted
AnswersAsExpected ==
    /\ call.valid.valid = (ExpectedReason = "Cache valid")
    /\ \/ call.valid.reason = ExpectedReason
       \/ /\ call.valid.reason = "Cannot determine cache age"
          /\ CacheLoads
          /\ call.before[1].dict.cached_at.suffix = "garbage"

\* C28: progress.is_cache_valid returns (True, ...) exactly when the cache
\* file exists, parses and has the required fields, invalidated_at is null,
\* its age is at most the TTL, and its project_id equals that of the project
\* file when both are present; otherwise it returns (False, reason) with the
\* reason of the first failed check.
C28_CacheValidExactly ==
    call.fn = "is_cache_valid" /\ call.max_age_seconds = <<>>
        => AnswersAsExpected

\* what holds of the code: the same where local time is UTC or the cache is
\* stamped with local time
C28_CacheValidExactlyInLocalTime ==
    /\ call.fn = "is_cache_valid"
    /\ call.max_age_seconds = <<>>
    /\ \/ call.utc_offset = 0
       \/ CacheLoads => call.before[1].dict.cached_at.suffix # "Z"
    => AnswersAsExpected

\* C29: when max_age_seconds is passed to progress.is_cache_valid, the cache
\* is valid only if its age is at most max_age_seconds, whatever ttl_seconds
\* the file carries, for every max_age_seconds >= 0 (stated here for a
\* machine whose local time is UTC).
C29_MaxAgeIsTheTtl ==
    /\ call.fn = "is_cache_valid"
    /\ call.max_age_seconds # <<>>
    /\ call.utc_offset = 0
    /\ call.valid.valid
    => CacheAge <= call.max_age_seconds[1]

\* what holds of the code: the same for every max_age_seconds > 0
C29_PositiveMaxAgeIsTheTtl ==
    /\ call.fn = "is_cache_valid"
    /\ call.max_age_seconds # <<>>
    /\ call.max_age_seconds # <<0>>
    /\ call.utc_offset = 0
    /\ call.valid.valid
    => CacheAge <= call.max_age_seconds[1]

\* the project of the last call is initialized
ProjectKnown ==
    call.project_file # <<>> /\ "project_id" \in DOMAIN call.project_file[1]

\* the cache of the last call was valid for get_issues_for_session
SessionCacheValid ==
    /\ call.before # <<>>
    /\ call.before[1].json
    /\ LET cache == call.before[1].dict IN
        /\ cache.invalidated_at = <<>>
        /\ cache.project_id = call.project_file[1].project_id
        /\ cache.cached_at.suffix # "garbage"
        /\ CacheAge <= call.cache_ttl

\* the value returned is the cache file's data
ReturnsCachedData ==
    /\ call.issues.value # <<>>
    /\ call.issues.value[1]._from_cache
    /\ \A k \in DOMAIN call.before[1].dict \ {"_from_cache"} :
          call.issues.value[1][k] = call.before[1].dict[k]

\* C30: get_issues_for_session returns the cached data without calling the
\* API when the cache is valid and force_refresh is false, and otherwise
\* fetches from the API; it returns None when the project is not
\* initialized or the API call fails (stated here for a machine whose local
\* time is UTC).
C30_CacheOrFetchOrNone ==
    call.fn = "get_issues_for_session" /\ call.utc_offset = 0 =>
        IF ~ProjectKnown THEN call.issues.value = <<>>
        ELSE IF SessionCacheValid /\ ~call.force_refresh
        THEN ~call.issues.api_called /\ ReturnsCachedData
        ELSE /\ call.issues.api_called
             /\ call.api = "LinearClientError" => call.issues.value = <<>>
             /\ call.api = "ok" =>
                   /\ call.issues.value # <<>>
                   /\ ~call.issues.value[1]._from_cache

\* what holds of the code: when the API call fails, None is returned only
\* if no cache file can be read, and otherwise the old cache marked stale
C30_CacheOrFetchOrStale ==
    call.fn = "get_issues_for_session" /\ call.utc_offset = 0 =>
        IF ~ProjectKnown THEN call.issues.value = <<>>
        ELSE IF SessionCacheValid /\ ~call.force_refresh
        THEN ~call.issues.api_called /\ ReturnsCachedData
        ELSE /\ call.issues.api_called
             /\ call.api = "LinearClientError" =>
                   IF call.before = <<>> \/ ~call.before[1].json
                   THEN call.issues.value = <<>>
                   ELSE ReturnsCachedData /\ call.issues.value[1]._stale
             /\ call.api = "ok" =>
                   /\ call.issues.value # <<>>
                   /\ ~call.issues.value[1]._from_cache


-----------------------------------------------------------------------------
(* SpecGate: bash_security_hook (src/security.py) on commands made of pkill *)
(* segments.  A segment is a command name, its flags and its other          *)
(* arguments; an argument is a sequence of words separated by blanks, and   *)
(* is written in lower case or with capital letters.                        *)

\* the words of the arguments explored
GateWords == {"node", "next", "dev", "sshd", "/", "server"}
\* the words without a letter have one way to be written
GateSymbols == {"/"}
\* words of one argument, arguments of one segment, segments of one command
MaxWords == 2
MaxArgs == 1
MaxSegments == 2

GateFlags == {"-f", "-fi"}
GateCommandNames == {"pkill", "ls", "curl"}

WordSeqs(n) == UNION {[1..k -> GateWords] : k \in 1..n}

GateArguments ==
    {a \in [words : WordSeqs(MaxWords), capitals : BOOLEAN] :
        (\A i \in 1..Len(a.words) : a.words[i] \in GateSymbols)
            => ~a.capitals}

GateSegments ==
    {g \in [cmd : GateCommandNames, flags : SUBSET GateFlags,
            args : UNION {[1..k -> GateArguments] : k \in 0..MaxArgs}] :
        g.cmd # "pkill" => g.flags = {} /\ g.args = <<>>}

\* commands "segment" and "segment && segment"
GateCommands == UNION {[1..k -> GateSegments] : k \in 1..MaxSegments}

\* ALLOWED_COMMANDS, as far as the command names explored go
ALLOWED_COMMANDS == {"ls", "pkill"}
COMMANDS_NEEDING_EXTRA_VALIDATION == {"pkill", "taskkill", "chmod", "init.sh"}

allowed_process_names ==
    {"node", "npm", "npx", "pnpm", "vite", "next", "tsx", "turbo"}
dangerous_if_alone == {"node", "npm", "npx", "pnpm"}
safe_patterns ==
    {<<"next", "dev">>, <<"next", "start">>, <<"next", "build">>,
     <<"vite">>, <<"vite", "dev">>, <<"vite", "build">>,
     <<"tsx", "watch">>, <<"tsx">>,
     <<"turbo", "dev">>, <<"turbo", "run">>,
     <<"npm", "run", "dev">>, <<"npm", "run", "start">>,
     <<"npm", "run", "build">>,
     <<"pnpm", "dev">>, <<"pnpm", "run", "dev">>,
     <<"npx", "next">>, <<"npx", "vite">>, <<"npx", "tsx">>}
safe_keywords ==
    {"dev", "watch", "start", "build", "serve", "server", "api", "web"}

\* "kw in word" for a word and a keyword in lower case
PartOfWord(kw, word) ==
    \/ word = kw
    \/ word = "server" /\ kw = "serve"

\* '"/" in target'
HasSlash(target) == \E i \in 1..Len(target.words) : target.words[i] = "/"

\* "any(kw in target_lower for kw in safe_keywords)"
HasSafeKeyword(target) ==
    \E i \in 1..Len(target.words), kw \in safe_keywords :
        PartOfWord(kw, target.words[i])

\* "first_word in names": first_word is taken from the target as written
FirstWordIn(target, names) ==
    /\ target.words[1] \in names
    /\ ~target.capitals

\* "target in names": the whole target as written
TargetIn(target, names) == Len(target.words) = 1 /\ FirstWordIn(target, names)

\* validate_pkill_command(command_string) for one segment
validate_pkill_command(segment) ==
    LET has_f_flag == "-f" \in segment.flags
        args == segment.args
        target == args[Len(args)]
        blocked == [allowed |-> FALSE, reason |-> "only dev processes"]
        ok == [allowed |-> TRUE, reason |-> ""]
    IN  IF args = <<>>
        THEN [allowed |-> FALSE, reason |-> "requires a process name"]
        ELSE IF has_f_flag
        THEN IF target.words \in safe_patterns THEN ok
             ELSE IF HasSlash(target) THEN ok
             ELSE IF HasSafeKeyword(target) THEN ok
             ELSE IF /\ FirstWordIn(target, dangerous_if_alone)
                     /\ Len(target.words) = 1
                     /\ ~HasSlash(target)
             THEN [allowed |-> FALSE, reason |-> "too broad"]
             ELSE IF FirstWordIn(target, allowed_process_names) THEN ok
             ELSE blocked
        ELSE IF TargetIn(target, allowed_process_names) THEN ok
        ELSE blocked

\* extract_commands(command): the command name of every segment
extract_commands(command) == [i \in 1..Len(command) |-> command[i].cmd]

\* get_command_for_validation(cmd, segments): the first segment that holds
\* the command name
get_command_for_validation(cmd, segments) ==
    segments[CHOOSE i \in 1..Len(segments) :
                /\ segments[i].cmd = cmd
                /\ \A j \in 1..(i - 1) : segments[j].cmd # cmd]

\* the check of one command name in the loop of bash_security_hook
GateCheck(cmd, segments) ==
    IF cmd \notin ALLOWED_COMMANDS
    THEN [allowed |-> FALSE, reason |-> "not in the allowed commands list"]
    ELSE IF cmd = "pkill"
    THEN validate_pkill_command(get_command_for_validation(cmd, segments))
    ELSE [allowed |-> TRUE, reason |-> ""]

\* bash_security_hook(input_data) for a Bash command: the first check that
\* blocks decides, and the command is allowed when none does
bash_security_hook(command) ==
    LET commands == extract_commands(command)
        failing == {i \in 1..Len(commands) :
                       ~GateCheck(commands[i], command).allowed}
    IN  IF failing = {}
        THEN [decision |-> "allow", reason |-> ""]
        ELSE [decision |-> "block",
              reason |-> GateCheck(commands[CHOOSE i \in failing :
                                       \A j \in failing : i <= j],
                                   command).reason]

InitGate ==
    /\ WatchIdle
    /\ LoopIdle
    /\ now = 0
    /\ autonomy_state = NewAutonomyState
    /\ pause_result = <<FALSE, 0>>
    /\ pause_test = 0
    /\ calls = <<>>
    /\ op = "init"
    /\ \E command \in GateCommands :
          call = [fn |-> "bash_security_hook", command |-> command,
                  pc |-> "called", decision |-> "none", reason |-> ""]

BashSecurityHook ==
    /\ call.pc = "called"
    /\ call' = [call EXCEPT
                    !.pc = "returned",
                    !.decision = bash_security_hook(call.command).decision,
                    !.reason = bash_security_hook(call.command).reason]
    /\ UNCHANGED <<asVars, wdVars, loopVars>>

NextGate == BashSecurityHook

SpecGate == InitGate /\ [][NextGate]_vars

\* a pkill segment whose target is an allowed process name, or with -f a
\* dev-server pattern
NarrowTarget(segment) ==
    /\ segment.args # <<>>
    /\ LET target == segment.args[Len(segment.args)]
       IN  \/ /\ "-f" \notin segment.flags
              /\ TargetIn(target, allowed_process_names)
           \/ /\ "-f" \in segment.flags
              /\ target.words \in safe_patterns

\* the segment is "pkill -f node"
PkillFNode(segment) ==
    /\ segment.cmd = "pkill"
    /\ segment.flags = {"-f"}
    /\ segment.args = <<[words |-> <<"node">>, capitals |-> FALSE]>>

\* C31: the command gate allows a pkill command only when its target is one
\* of the allowed development-tool process names or dev-server patterns;
\* every other pkill is blocked, including "pkill -f node".
C31_PkillOnlyDevTargets ==
    call.pc = "returned" /\ call.decision = "allow" =>
        \A i \in 1..Len(call.command) :
            call.command[i].cmd = "pkill" =>
                /\ NarrowTarget(call.command[i])
                /\ ~PkillFNode(call.command[i])

\* what holds of the code: a command of one pkill segment without -f is
\* allowed exactly for the allowed process names, and the command
\* "pkill -f node" is blocked
C31_SinglePkillByName ==
    /\ call.pc = "returned" /\ Len(call.command) = 1
           /\ call.command[1].cmd = "pkill" /\ "-f" \notin call.command[1].flags
       => (call.decision = "allow" <=> NarrowTarget(call.command[1]))
    /\ call.pc = "returned" /\ Len(call.command) = 1
           /\ PkillFNode(call.command[1])
       => call.decision = "block"


-----------------------------------------------------------------------------
(* The watchdog in the session loop *)

\* where the loop is between "await watchdog.start()" and the finally clause
SessionPositions == {"construct", "session", "client_exit", "finally"}

\* the monitor tasks that exist: created and not ended
LiveTasks == {i \in 1..Len(tasks) : tasks[i].status # "done"}

\* C32: in the session loop the watchdog is running exactly while an
\* iteration is running its session, and at most one monitor task exists at
\* any time; it is stopped, with no monitor task, during pause sleeps,
\* between sessions and when the loop is done, whichever way the iteration
\* ended.
C32_WatchdogFollowsSession ==
    /\ watchdog.running <=> loop.pc \in SessionPositions
    /\ Cardinality(LiveTasks) <= 1
    /\ loop.pc \in {"loop_head", "pause_sleep", "start_session", "record",
                    "done"}
           => LiveTasks = {}

\* a second session runs with its own monitor task after the first one
\* failed, and the monitor task of that first session is gone
C32_Witness ==
    /\ loop.pc = "session"
    /\ loop.sessions = 2
    /\ Len(calls) = 1 /\ ~calls[1].success
    /\ watchdog.running
    /\ LiveTasks = {2}


\* C33: the outcome of a session is decided by the race between the session
\* call and the wall-clock deadline alone: the call ends with "continue" or
\* "error", or after the deadline with "timeout"; an invocation of the
\* watchdog's timeout callback changes neither the loop, whose session goes
\* on, nor AutonomyState nor SessionHealth.
C33_OutcomeByRace ==
    [][/\ loop.pc = "session" /\ loop'.pc = "client_exit" =>
            /\ loop'.status \in {"continue", "error", "timeout"}
            /\ loop'.status = "timeout" =>
                   now >= loop.session_start + 1800
       /\ fires' # fires =>
            /\ loop' = loop
            /\ autonomy_state' = autonomy_state
            /\ session_health' = session_health]_vars

\* the callback fired during a session that then returned "continue"
C33_Witness ==
    /\ loop.pc = "client_exit"
    /\ loop.status = "continue"
    /\ last_fire # None
    /\ last_fire[1] >= loop.session_start
    /\ fires > 0


-----------------------------------------------------------------------------
(* SpecEvents: the session loop with the clock moving in steps of the       *)
(* watchdog's timeout while a session runs, and several events per session; *)
(* the sessions end by returning, before the wall-clock deadline            *)

\* events of one session
MaxPets == 2
\* the clock up to which the sessions are followed
MaxEventClock == 1500
\* the clock's steps during a session
EventTicks == {WATCHDOG_TIMEOUT_SECONDS}

EventRuns == {run \in Runs : run.max_iterations # None}

InitEvents == InitRun(EventRuns)

NextEvents ==
    \/ /\ \/ loop.iteration < MaxIterations
          \/ CapReached(loop.max_iterations, loop.iteration + 1)
       /\ LoopHead(0, 0)
       /\ UNCHANGED call
    \/ StartSession /\ UNCHANGED call
    \/ ConstructSession /\ UNCHANGED call
    \/ EventStep(MaxPets) /\ UNCHANGED call
    \/ SessionReturns /\ UNCHANGED call
    \/ /\ \E d \in EventTicks : now + d <= MaxEventClock /\ SessionTick(d)
       /\ UNCHANGED call
    \/ ClientExit /\ UNCHANGED call
    \/ FinallyStop /\ UNCHANGED call
    \/ AfterFinally /\ UNCHANGED call
    \/ RecordAndContinue(<<>>) /\ UNCHANGED call
    \/ /\ loop.pc \in SessionPositions \cup {"stopping"}
       /\ \E i \in 1..Len(tasks) : MonitorCancelled(i)
       /\ UNCHANGED <<asVars, loopVars, call>>
    \/ /\ loop.pc \in SessionPositions \cup {"stopping"}
       /\ \E i \in 1..Len(tasks) : MonitorPoll(i)
       /\ UNCHANGED <<asVars, loopVars, call>>

SpecEvents == InitEvents /\ [][NextEvents]_vars

\* C34: while events arrive from the session at intervals no longer than
\* timeout_seconds, counted from the session's start, the callback does not
\* fire during that session: it fires only when more than timeout_seconds
\* have passed since the last event or the start; every event pets the
\* watchdog and records activity, and start() sets the clock of the last pet,
\* on a new Watchdog and on one that served an earlier session.
C34_NoFireWhileEventsArrive ==
    [][/\ fires' # fires /\ loop.pc \in SessionPositions =>
            now - loop.last_event > watchdog.timeout_seconds
       /\ loop'.events # loop.events /\ loop'.pc = "session" =>
            /\ watchdog'.last_pet = now
            /\ session_health'.tool_calls = session_health.tool_calls + 1
       /\ loop.pc = "start_session" /\ loop'.pc = "construct" =>
            watchdog'.last_pet = now]_vars

\* a second session got two events, exactly timeout_seconds apart from the
\* start and from each other, with the monitor polling after the last one,
\* and the callback has not fired in it, on the Watchdog of a first session
\* in which it had fired
C34_Witness ==
    /\ loop.pc = "session"
    /\ loop.sessions = 2
    /\ loop.events = 2
    /\ loop.last_event = loop.session_start + 2 * watchdog.timeout_seconds
    /\ now = loop.last_event + watchdog.timeout_seconds
    /\ tasks[2].status = "sleeping" /\ tasks[2].wake > now
    /\ fires = 1
    /\ last_fire[1] <= loop.session_start


-----------------------------------------------------------------------------
(* Degraded mode in the session loop *)

\* the AutonomyState with the other value of degraded_mode
OtherMode(st) == [st EXCEPT !.degraded_mode = ~@]

\* C35: degraded_mode neither prevents nor delays a session: the pause
\* decision at the head of an iteration is the one the loop would take with
\* the other value of degraded_mode, the session is started after it in
\* either mode, and the task description of a session carries the
\* degraded-mode notice if and only if degraded_mode was true when the
\* session started.
C35_DegradedIsAdvisory ==
    [][/\ loop.pc = "loop_head" /\ loop'.pc # "done" =>
            LET r == should_pause(OtherMode(autonomy_state), pause_test', now')
            IN  /\ pause_result' = r.ret
                /\ loop'.pause_duration = r.ret[2]
                /\ loop'.pc = IF r.ret[1] THEN "pause_sleep"
                              ELSE "start_session"
       /\ loop.pc = "pause_sleep" =>
            loop'.pc = "start_session"
       /\ loop.pc = "start_session" =>
            /\ loop'.pc = "construct"
            /\ watchdog'.running
       /\ loop.pc = "construct" /\ loop'.pc = "session" =>
            loop'.enhanced_prompt.degraded_notice = loop.started_degraded]_vars

\* a session that started in degraded mode, right after the session whose
\* failure entered it, runs with the notice in its task description
C35_Witness ==
    /\ loop.pc = "session"
    /\ loop.sessions = 2
    /\ loop.started_degraded
    /\ loop.loaded_sessions = 0
    /\ loop.enhanced_prompt.degraded_notice


-----------------------------------------------------------------------------
(* SpecPending: .linear_pending.json and the functions of progress.py that  *)
(* read and write it, called one after the other on one project directory   *)

\* calls of add_pending_operation and clear_pending_operations
MaxPendingCalls == 4
\* the clock, which stamps the entries and the file
MaxPendingClock == 2

PendingIssues == {"A", "B"}

\* dict[key] = value
Put(dict, key, value) ==
    [k \in DOMAIN dict \cup {key} |-> IF k = key THEN value ELSE dict[k]]

\* load_pending_operations(project_dir): the dict of the file, or a new one
\* when the file is missing or is not JSON
load_pending_operations(file) ==
    IF file = <<>> \/ ~file[1].json
    THEN [pending_updates |-> <<>>, created_at |-> None]
    ELSE file[1].dict

\* save_pending_operations(project_dir, pending) at clock t: the file written
save_pending_operations(pending, t) ==
    LET stamped == Put(pending, "updated_at", <<isoformat(t)>>)
    IN  JsonFile(IF Get(stamped, "created_at", None) = None
                 THEN Put(stamped, "created_at", stamped.updated_at)
                 ELSE stamped)

\* add_pending_operation(project_dir, issue_id, action) at clock t
add_pending_operation(file, issue_id, action, t) ==
    LET pending == load_pending_operations(file)
        operation == [issue_id |-> issue_id, action |-> action,
                      added_at |-> isoformat(t)]
    IN  save_pending_operations(
            [pending EXCEPT !.pending_updates = Append(@, operation)], t)

\* get_pending_operation_count(project_dir)
get_pending_operation_count(file) ==
    Len(Get(load_pending_operations(file), "pending_updates", <<>>))

\* mutant: clear archives the count and leaves the entries
ClearKeepsEntries(file, t) ==
    LET pending == load_pending_operations(file)
        count == Len(Get(pending, "pending_updates", <<>>))
    IN  [count |-> count,
         file |-> IF count > 0
                  THEN save_pending_operations(
                           Put(Put(pending, "last_cleared", <<isoformat(t)>>),
                               "last_cleared_count", count), t)
                  ELSE file]

\* clear_pending_operations(project_dir) at clock t: what it returns and the
\* file it leaves
clear_pending_operations(file, t) ==
    LET pending == load_pending_operations(file)
        count == Len(Get(pending, "pending_updates", <<>>))
    IN  [count |-> count,
         file |-> IF count > 0
                  THEN save_pending_operations(
                           Put(Put(Put(pending, "last_cleared",
                                       <<isoformat(t)>>),
                                   "last_cleared_count", count),
                               "pending_updates", <<>>), t)
                  ELSE file]

\* the project directory has no pending file, or one that an interrupted
\* write left unreadable
InitPending ==
    /\ WatchIdle
    /\ LoopIdle
    /\ now = 0
    /\ autonomy_state = NewAutonomyState
    /\ pause_result = <<FALSE, 0>>
    /\ pause_test = 0
    /\ calls = <<>>
    /\ op = "init"
    /\ \E file \in {<<>>, CorruptFile} :
          call = [fn |-> "none",
                  pending_file |-> file,
                  returned |-> 0,
                  \* ghosts: the calls made, the operations added since the
                  \* last clear, and how many they were when the last clear
                  \* began
                  n |-> 0,
                  added |-> <<>>,
                  found |-> 0]

AddPendingOperation(issue_id) ==
    /\ call.n < MaxPendingCalls
    /\ call' = [call EXCEPT
                   !.fn = "add_pending_operation",
                   !.pending_file =
                       add_pending_operation(@, issue_id, "update_status", now),
                   !.n = @ + 1,
                   !.added = Append(@, [issue_id |-> issue_id,
                                        action |-> "update_status",
                                        added_at |-> isoformat(now)])]
    /\ UNCHANGED <<asVars, wdVars, loopVars>>

ClearPendingOperations ==
    /\ call.n < MaxPendingCalls
    /\ call' = [call EXCEPT
                   !.fn = "clear_pending_operations",
                   !.pending_file = clear_pending_operations(@, now).file,
                   !.returned =
                       clear_pending_operations(call.pending_file, now).count,
                   !.n = @ + 1,
                   !.added = <<>>,
                   !.found = Len(call.added)]
    /\ UNCHANGED <<asVars, wdVars, loopVars>>

GetPendingOperationCount ==
    /\ call.fn # "get_pending_operation_count"
    /\ call' = [call EXCEPT
                   !.fn = "get_pending_operation_count",
                   !.returned = get_pending_operation_count(call.pending_file)]
    /\ UNCHANGED <<asVars, wdVars, loopVars>>

PendingTick ==
    /\ now < MaxPendingClock
    /\ now' = now + 1
    /\ UNCHANGED <<autonomy_state, pause_result, pause_test, calls, op,
                   wdVars, loopVars, call>>

NextPending ==
    \/ \E issue_id \in PendingIssues : AddPendingOperation(issue_id)
    \/ ClearPendingOperations
    \/ GetPendingOperationCount
    \/ PendingTick

SpecPending == InitPending /\ [][NextPending]_vars

\* C36: after any sequence of add_pending_operation and
\* clear_pending_operations calls on a project directory, the pending count
\* is the number of adds since the last clear, the pending entries are the
\* operations added since then in the order of their insertion, and a clear
\* returns the number of entries it removed.
C36_PendingQueue ==
    /\ get_pending_operation_count(call.pending_file) = Len(call.added)
    /\ load_pending_operations(call.pending_file).pending_updates = call.added
    /\ call.fn = "get_pending_operation_count" =>
           call.returned = Len(call.added)
    /\ call.fn = "clear_pending_operations" =>
           /\ call.returned = call.found
           /\ get_pending_operation_count(call.pending_file) = 0

\* an operation was added and cleared, and two more were added after it
C36_Witness ==
    /\ call.fn = "add_pending_operation"
    /\ call.n = 4
    /\ call.found = 1
    /\ Len(call.added) = 2
    /\ call.added[1].issue_id = "B"
    /\ call.added[2].issue_id = "A"
    /\ call.pending_file[1].dict.last_cleared_count = 1


-----------------------------------------------------------------------------
(* Sleeps of retry_with_backoff *)

\* C37: retry_with_backoff does not sleep after its last invocation of the
\* operation: every backoff sleep is followed by another invocation, for
\* every declared category and every category of the failure.
C37_SleepThenInvoke ==
    [][call.pc = "sleep" => call'.pc = "call"]_vars

\* what holds of the code: a sleep is followed by another invocation when
\* the attempts of the declared category are not used up, and by the raise
\* of the last exception when they are
C37_SleepThenInvokeWithinDeclared ==
    [][call.pc = "sleep" =>
          call'.pc = IF call.attempt < call.config.max_retries
                     THEN "call" ELSE "raised"]_vars


-----------------------------------------------------------------------------
(* SpecLoad: load_autonomy_state at the start of a run, on whatever is in   *)
(* .autonomy_state.json: a file that save_autonomy_state wrote, whole or    *)
(* cut off, or one that was edited or damaged                               *)

\* the clock when the run starts
MaxLoadClock == 3
\* consecutive failures in the saved states
MaxLoadFailures == 5

\* text that datetime.fromisoformat does not accept
GarbageText == [garbage |-> "tomorrow"]

\* datetime.fromisoformat(text) returns
ParsesAsIso(text) == DOMAIN text = {"iso"}

\* the file: <<>> when missing, else <<[kind, dict]>>: kind "dict" is a JSON
\* object, "list" another JSON value, "cut" text that is no JSON, "binary"
\* bytes that are no UTF-8 text
StartupFile(kind, dict) == <<[kind |-> kind, dict |-> dict]>>

StartupFiles ==
    {<<>>}
    \cup {StartupFile(kind, [consecutive_errors |-> 0]) :
             kind \in {"list", "cut", "binary"}}
    \cup {StartupFile("dict", [degraded_mode |-> TRUE])}
    \cup {StartupFile("dict",
                      [save_autonomy_state(AfterFailures(n))[1]
                           EXCEPT !.pause_until = pause_until]) :
             n \in 0..MaxLoadFailures,
             pause_until \in {None, <<isoformat(1)>>, <<GarbageText>>}}

\* load_autonomy_state(project_dir) at clock t: what it raises and, when it
\* returns, the state.  "except (json.JSONDecodeError, IOError)" catches
\* what json.load raises on text that is no JSON; the UnicodeDecodeError of
\* the read, the AttributeError of data.get on a list and the ValueError of
\* fromisoformat pass through it.
LoadAtStartup(file, t) ==
    IF file = <<>> THEN [raises |-> "none", state |-> NewAutonomyState]
    ELSE IF file[1].kind = "cut"
    THEN [raises |-> "none", state |-> NewAutonomyState]
    ELSE IF file[1].kind = "binary"
    THEN [raises |-> "UnicodeDecodeError", state |-> NewAutonomyState]
    ELSE IF file[1].kind = "list"
    THEN [raises |-> "AttributeError", state |-> NewAutonomyState]
    ELSE LET data == file[1].dict
             loaded ==
                 [consecutive_errors |-> Get(data, "consecutive_errors", 0),
                  consecutive_successes |->
                      Get(data, "consecutive_successes", 0),
                  total_sessions |-> Get(data, "total_sessions", 0),
                  total_issues_completed |->
                      Get(data, "total_issues_completed", 0),
                  degraded_mode |-> Get(data, "degraded_mode", FALSE),
                  session_history |-> Get(data, "session_history", <<>>),
                  pause_until |-> None]
             pause_until == Get(data, "pause_until", None)
         IN  IF pause_until = None
             THEN [raises |-> "none", state |-> loaded]
             ELSE IF ~ParsesAsIso(pause_until[1])
             THEN [raises |-> "ValueError", state |-> NewAutonomyState]
             ELSE [raises |-> "none",
                   state |-> [loaded EXCEPT !.pause_until =
                                 IF t > fromisoformat(pause_until[1])
                                 THEN None
                                 ELSE <<fromisoformat(pause_until[1])>>]]

InitLoad ==
    /\ WatchIdle
    /\ LoopIdle
    /\ now = 0
    /\ autonomy_state = NewAutonomyState
    /\ pause_result = <<FALSE, 0>>
    /\ pause_test = 0
    /\ calls = <<>>
    /\ op = "init"
    /\ \E file \in StartupFiles :
          call = [fn |-> "load_autonomy_state", file |-> file,
                  pc |-> "called", raises |-> "none"]

LoadTick ==
    /\ call.pc = "called"
    /\ now < MaxLoadClock
    /\ now' = now + 1
    /\ UNCHANGED <<autonomy_state, pause_result, pause_test, calls, op,
                   wdVars, loopVars, call>>

\* agent.py line 280: autonomy_state = load_autonomy_state(project_dir)
LoadAutonomyState ==
    /\ call.pc = "called"
    /\ call' = [call EXCEPT !.pc = "returned",
                            !.raises = LoadAtStartup(call.file, now).raises]
    /\ autonomy_state' = LoadAtStartup(call.file, now).state
    /\ UNCHANGED <<now, pause_result, pause_test, calls, op, wdVars, loopVars>>

NextLoad ==
    \/ LoadTick
    \/ LoadAutonomyState

SpecLoad == InitLoad /\ [][NextLoad]_vars

\* the file is one that save_autonomy_state wrote to its end
WrittenBySave(file) ==
    /\ file # <<>>
    /\ file[1].kind = "dict"
    /\ \E n \in 0..MaxLoadFailures, pause_until \in {None, <<1>>} :
          file[1].dict = save_autonomy_state(
              [AfterFailures(n) EXCEPT !.pause_until = pause_until])[1]

\* C38: load_autonomy_state never raises: when the state file is missing, is
\* not valid JSON or holds a malformed field, such as a pause_until that
\* does not parse, it returns the default state.
C38_LoadNeverRaises ==
    call.pc = "returned" =>
        /\ call.raises = "none"
        /\ ~WrittenBySave(call.file) => autonomy_state = NewAutonomyState

\* what holds of the code: no exception and the default state when the file
\* is missing or is text that is no JSON, and for a file that
\* save_autonomy_state wrote the state that load_autonomy_state gives for it
C38_LoadDefaultsWithoutJson ==
    call.pc = "returned" =>
        /\ call.file = <<>> \/ call.file[1].kind = "cut" =>
               call.raises = "none" /\ autonomy_state = NewAutonomyState
        /\ WrittenBySave(call.file) =>
               /\ call.raises = "none"
               /\ autonomy_state = load_autonomy_state(<<call.file[1].dict>>, now)


-----------------------------------------------------------------------------
(* SpecLive: the session loop with a positive iteration cap, under the      *)
(* fairness of the event loop: a step of the coroutine that can be taken is *)
(* taken, a sleep and the entry and exit of the client end, the clock moves *)
(* and a timer whose deadline has passed fires.  Nothing makes the session  *)
(* call itself send an event, return or raise.                              *)

CappedRuns ==
    {run \in Runs \cup ModeRuns :
        run.max_iterations # None /\ run.max_iterations[1] > 0}

InitLive == InitRun(CappedRuns)

\* the steps that are taken when they can be
FairSteps ==
    \/ /\ \/ loop.iteration < MaxIterations
          \/ CapReached(loop.max_iterations, loop.iteration + 1)
       /\ \E d \in ClockSteps : LoopHead(0, d)
       /\ UNCHANGED call
    \/ (\E late \in ClockSteps : PauseSleep(late)) /\ UNCHANGED call
    \/ StartSession /\ UNCHANGED call
    \/ ConstructSession /\ UNCHANGED call
    \/ (\E text \in ErrorTexts : CreateClientRaises(text)) /\ UNCHANGED call
    \/ (\E text \in ErrorTexts : EnterClientRaises(text)) /\ UNCHANGED call
    \/ SessionTimeout /\ UNCHANGED call
    \/ (\E d \in SessionTicks : SessionTick(d)) /\ UNCHANGED call
    \/ ClientExit /\ UNCHANGED call
    \/ (\E text \in ErrorTexts : ClientExitRaises(text)) /\ UNCHANGED call
    \/ FinallyStop /\ UNCHANGED call
    \/ AfterFinally /\ UNCHANGED call
    \/ (\E project \in ProjectFiles : RecordAndContinue(project))
           /\ UNCHANGED call
    \/ /\ loop.pc = "stopping"
       /\ \E i \in 1..Len(tasks) : MonitorCancelled(i)
       /\ UNCHANGED <<asVars, loopVars, call>>

SpecLive == InitLive /\ [][Next]_vars /\ WF_vars(FairSteps)

-----------------------------------------------------------------------------
(* The streak counters and the history *)

\* the length of the run of sessions with this success flag that ends the
\* sequence of recorded sessions
RECURSIVE TrailingRun(_, _)
TrailingRun(recorded, flag) ==
    IF recorded = <<>> \/ recorded[Len(recorded)].success # flag THEN 0
    ELSE 1 + TrailingRun(SubSeq(recorded, 1, Len(recorded) - 1), flag)

\* the last n entries of session_history carry this success flag
LastCarry(n, flag) ==
    LET h == autonomy_state.session_history
    IN  /\ Len(h) >= n
        /\ \A i \in (Len(h) - n + 1)..Len(h) : h[i].success = flag

\* C40: from a fresh AutonomyState, after any sequence of
\* record_session_result calls, consecutive_errors is the length of the
\* trailing run of failed sessions and consecutive_successes that of the
\* trailing run of successful ones; when that length is at most 10, that
\* many last entries of session_history carry the matching success flag.
C40_StreaksAreTrailingRuns ==
    /\ autonomy_state.consecutive_errors = TrailingRun(calls, FALSE)
    /\ autonomy_state.consecutive_successes = TrailingRun(calls, TRUE)
    /\ autonomy_state.consecutive_errors <= 10 =>
           LastCarry(autonomy_state.consecutive_errors, FALSE)
    /\ autonomy_state.consecutive_successes <= 10 =>
           LastCarry(autonomy_state.consecutive_successes, TRUE)

\* eleven sessions were recorded, the history was trimmed, and the last
\* three failed after a success
C40_Witness ==
    /\ Len(calls) = 11
    /\ calls[8].success
    /\ autonomy_state.consecutive_errors = 3
    /\ Len(autonomy_state.session_history) = 10
    /\ LastCarry(3, FALSE)
    /\ autonomy_state.session_history[7].success

=============================================================================
